---- MODULE Spec2Model ----
(***************************************************************************)
(* Engine lifecycle manager and prompt-voice generation pipeline of        *)
(* ai-voice-studio (backend/engines, backend/services/parler_service.py,   *)
(* backend/api).  Every request is an asyncio task; a task is suspended    *)
(* only at an await that really yields (an executor future, a broadcast,   *)
(* the disconnect probe), so each action below is the code between two     *)
(* such awaits.  Blocking work handed to run_in_executor is a step of its  *)
(* own, taken by the worker thread.                                        *)
(***************************************************************************)
EXTENDS Integers, Sequences, FiniteSets, TLC

\* Number of requests that may be in flight at once.
NumTasks == 2
Tasks == 1..NumTasks

None == "None"

\* Websocket clients of /ws/progress and broadcast calls of one run.
NumSockets == 3
Sockets == 1..NumSockets
MaxMsgs == 2

\* Engine names (get_name of each engine class) and the instances built by
\* register_engines.
Kokoro == "kokoro"
Fish == "fish-speech"
F5 == "f5-tts"
EngineNames == {Kokoro, Fish, F5}

KokoroEngine == "KokoroEngine"
FishSpeechEngine == "FishSpeechEngine"
F5TTSEngine == "F5TTSEngine"
Instances == {KokoroEngine, FishSpeechEngine, F5TTSEngine}

\* A further KokoroEngine object, built by a caller that registers the
\* name again.
KokoroEngine2 == "KokoroEngine#2"
AllInstances == Instances \cup {KokoroEngine2}

\* The prompt-voice package: a name the program knows that is no engine.
ParlerPkg == "parler-tts"
Packages == EngineNames \cup {ParlerPkg}

\* Names a request can carry: every registered name and an unregistered one.
RequestNames == EngineNames \cup {ParlerPkg}

get_name(i) ==
  CASE i \in {KokoroEngine, KokoroEngine2} -> Kokoro
    [] i = FishSpeechEngine -> Fish
    [] i = F5TTSEngine -> F5

VARIABLES
  started,        \* lifespan startup has run (register_engines)
  engines,        \* EngineManager._engines: name -> instance
  active_engine,  \* EngineManager._active_engine
  active_name,    \* EngineManager._active_name
  model,          \* per instance: KokoroEngine._pipeline, FishSpeechEngine._model, F5TTSEngine._model
  loaded,         \* per instance: FishSpeechEngine._loaded, F5TTSEngine._loaded
  installed,      \* packages importable in this deployment
  pc,             \* per task: where the request's coroutine is suspended
  op,             \* per task: the operation the request runs
  arg,            \* per task: the name argument of the call
  fut,            \* per task: state of the executor future it awaits
  res,            \* per task: outcome of the call once it has ended
  ret,            \* per task: the engine instance the call returned
  log,            \* per task: what the call has done so far, in order: engine
                  \* methods invoked, progress events and callback values sent
  p_model,            \* ParlerVoiceService._model (the model whose weights it holds)
  p_tokenizer,        \* ParlerVoiceService._tokenizer
  p_loaded,           \* ParlerVoiceService._loaded
  p_loaded_model_id,  \* ParlerVoiceService._loaded_model_id
  req,            \* per task: generate_preview was given a request object
  cancel_event,   \* per task: generate_preview's cancel_event
  cancelled,      \* per task: generate_preview's local `cancelled`
  wk,             \* per task: the _generate worker thread of the call
  polls,          \* per task: poll timeouts the call has seen
  wrote,          \* per task: the call wrote a preview file
  active_connections,  \* ConnectionManager.active_connections (a list)
  conn_state,     \* per websocket: "new", "open" (accepted), "closed" (closed by
                  \* the server) or "gone" (peer closed, handler has returned)
  hung,           \* websockets whose peer has stopped reading
  received,       \* per websocket: the messages its peer has received, in order
  published,      \* number of broadcast calls made so far
  sendq,          \* per websocket: the calls awaiting a send_json on it, in order
  msg,            \* per task: the message of its broadcast call (its publish number)
  b_idx,          \* per task: position of broadcast's list iterator
  cur,            \* per task: the connection whose send_json it awaits (0: none)
  disconnected,   \* per task: broadcast's local list `disconnected`
  snap,           \* per task: the subscribers when its broadcast call began
  interfered,     \* per task: the list was changed by others during its call
  sd_pc,          \* lifespan: "serving", "closing" (in the close loop) or "complete"
  sd_conns,       \* lifespan shutdown: the part of its list copy not yet closed
  sd_log,         \* lifespan shutdown: the releases it has attempted, in order
  closed,         \* websockets on which lifespan shutdown has called close()
  sample_words,   \* _generate: len(sample_text.split()) of the request at hand
  max_new_tokens, \* _generate: gen_kwargs["max_new_tokens"] (0: not computed)
  listing,        \* per task: the list get_available_engines returned to it
  voices,         \* the voices directory: the engine field of every profile
                  \* saved in it (metadata.json written), in order of creation
  text_len,       \* per task: len(text) of the GenerateRequest it carries
  engine,         \* per task: activate_engine's local `engine` (line 54)
  probe,          \* per task: what request.is_disconnected() did when the
                  \* call last consulted it (None: not consulted)
  channel         \* the progress channel of this deployment: "up", or "down"
                  \* when publishing on it raises

mgr_vars == <<engines, active_engine, active_name>>
eng_vars == <<model, loaded>>
par_vars == <<p_model, p_tokenizer, p_loaded, p_loaded_model_id>>
gen_vars == <<req, cancel_event, cancelled, wk, polls, wrote>>
task_vars == <<pc, op, arg, fut, res, ret, log>>
ws_shared == <<active_connections, conn_state, hung, received, published, sendq>>
ws_locals == <<msg, b_idx, cur, disconnected, snap, interfered>>
ws_vars == <<ws_shared, ws_locals>>
deploy_vars == <<installed, channel>>
sd_vars == <<sd_pc, sd_conns, sd_log, closed>>
api_vars == <<sample_words, max_new_tokens, listing, voices, text_len>>
vars == <<started, sd_vars, api_vars, engine, probe, engines, active_engine, active_name, model, loaded,
          deploy_vars, pc, op, arg, fut, res, ret, log,
          p_model, p_tokenizer, p_loaded, p_loaded_model_id,
          req, cancel_event, cancelled, wk, polls, wrote, ws_vars>>

----------------------------------------------------------------------------
\* Engine contract, per concrete engine.

\* is_available(): the import probe of each engine.
is_available(i) == get_name(i) \in installed

IsLoadedInAlways(m, l, i) == TRUE

\* The negation of generate()'s not-loaded guard, on engine fields m, l.
IsLoadedIn(m, l, i) ==
  CASE get_name(i) = Kokoro -> m[i] # None
    [] i = FishSpeechEngine -> l[i]
    [] i = F5TTSEngine -> l[i] /\ m[i] # None

IsLoaded(i) == IsLoadedIn(model, loaded, i)

\* unload_model(): clears the engine; fish-speech and f5-tts then clear the
\* CUDA cache, which raises when the device is in error (cuda_ok false).
unload_model(i, cuda_ok) ==
  [model  |-> [model EXCEPT ![i] = None],
   loaded |-> [loaded EXCEPT ![i] = FALSE],
   raised |-> IF get_name(i) # Kokoro /\ ~cuda_ok THEN "RuntimeError" ELSE None]

\* load_model() up to its first await: only kokoro imports its package in
\* the coroutine itself.
load_model_call(i) ==
  IF get_name(i) = Kokoro /\ ~is_available(i) THEN "ImportError" ELSE None

\* The blocking part of load_model(), run in the executor thread.
\* backend_ok false: the backend fails to initialise (weights, device).
load_model_sync(i, backend_ok) ==
  CASE get_name(i) = Kokoro ->
         [model |-> model, raised |-> IF backend_ok THEN None ELSE "RuntimeError"]
    [] i = FishSpeechEngine ->
         IF ~is_available(i)
           THEN [model |-> [model EXCEPT ![i] = "cli_mode"], raised |-> None]
           ELSE IF backend_ok
             THEN [model |-> [model EXCEPT ![i] = "TTSInference"], raised |-> None]
             ELSE [model |-> model, raised |-> "RuntimeError"]
    [] i = F5TTSEngine ->
         IF ~is_available(i)
           THEN [model |-> model, raised |-> "ImportError"]
           ELSE IF backend_ok
             THEN [model |-> [model EXCEPT ![i] = "F5TTS"], raised |-> None]
             ELSE [model |-> model, raised |-> "RuntimeError"]

\* load_model() after the executor future resolved successfully.
load_model_resume(i) ==
  CASE get_name(i) = Kokoro ->
         [model |-> [model EXCEPT ![i] = "KPipeline"], loaded |-> loaded]
    [] OTHER ->
         [model |-> model, loaded |-> [loaded EXCEPT ![i] = TRUE]]

----------------------------------------------------------------------------
\* EngineManager.

\* A lookup that falls back to a default instead of failing or of
\* returning the named engine.
get_engine_default(name) ==
  [raised |-> None, value |-> engines[Kokoro]]

get_engine(name) ==
  IF name \notin DOMAIN engines
    THEN [raised |-> "ValueError", value |-> None]
    ELSE [raised |-> None, value |-> engines[name]]

get_active_engine == active_engine
get_active_name == active_name

IsAlreadyActiveNever(name) == FALSE

\* activate_engine line 43: the idempotent fast path.
IsAlreadyActive(name) == name = active_name /\ active_engine # None

NeedsUnloadNever == FALSE

\* activate_engine line 48: an engine is active and must go first.
NeedsUnload == active_engine # None

PreviewFromPromptOp == "preview_from_prompt"

ReplyNoCancel(o, outcome) ==
  IF o # PreviewFromPromptOp THEN outcome
  ELSE IF outcome = "result" THEN "HTTP200" ELSE "HTTP500"

\* What the caller of operation o gets when it ends with outcome:
\* preview_from_prompt answers what generate_preview raised with an HTTP
\* error (voice_create.py lines 68-73).
Reply(o, outcome) ==
  IF o # PreviewFromPromptOp THEN outcome
  ELSE IF outcome = "result" THEN "HTTP200"
  ELSE IF outcome = "GenerationCancelled" THEN "HTTP499"
  ELSE "HTTP500"

\* The call of operation o by task t ends: what its caller gets is kept
\* until the task takes its next request; of preview_from_prompt also the
\* outcome of its generate_preview call.
FinishAs(t, o, outcome, value) ==
  /\ pc' = [pc EXCEPT ![t] = "done"]
  /\ res' = [res EXCEPT ![t] = Reply(o, outcome)]
  /\ ret' = [ret EXCEPT ![t] = IF o = PreviewFromPromptOp THEN outcome ELSE value]
  /\ fut' = [fut EXCEPT ![t] = None]

\* A call ends in a step after the one that began it.
Finish(t, outcome, value) == FinishAs(t, op[t], outcome, value)

\* lifespan startup: register_engines registers the three engines.
Startup ==
  /\ ~started
  /\ started' = TRUE
  /\ engines' = [n \in EngineNames |->
                   CHOOSE i \in Instances : get_name(i) = n]
  /\ UNCHANGED <<sd_vars, api_vars, engine, probe, active_engine, active_name, eng_vars,
                 deploy_vars, ws_vars, task_vars, par_vars, gen_vars>>

\* register(engine): the instance is stored under its own name; an entry
\* of that name is replaced.
register(i) ==
  [n \in DOMAIN engines \cup {get_name(i)} |->
     IF n = get_name(i) THEN i ELSE engines[n]]

\* register is called by a caller other than register_engines.
Register(i) ==
  /\ started
  /\ engines' = register(i)
  /\ UNCHANGED <<started, sd_vars, api_vars, engine, probe, active_engine,
                 active_name, eng_vars, deploy_vars, ws_vars, task_vars,
                 par_vars, gen_vars>>

\* activate_engine(name) from its call to its first suspension: the fast
\* path, the unload of the current engine, the lookup and the start of
\* load_model.
ActivateCall(t, name) ==
  /\ started
  /\ pc[t] = "idle"
  /\ op' = [op EXCEPT ![t] = "activate"]
  /\ arg' = [arg EXCEPT ![t] = name]
  /\ UNCHANGED <<started, sd_vars, api_vars, probe, engines, deploy_vars,
                 ws_vars, par_vars, gen_vars>>
  /\ IF IsAlreadyActive(name)
       THEN /\ Finish(t, "ok", active_engine)
            /\ UNCHANGED <<active_engine, active_name, eng_vars, log, engine>>
       ELSE \E cuda_ok \in BOOLEAN :
         LET prev == active_engine
             unl == IF NeedsUnload
                      THEN unload_model(prev, cuda_ok)
                      ELSE [model |-> model, loaded |-> loaded, raised |-> None]
             calls == IF NeedsUnload THEN <<"unload_model">> ELSE <<>>
             found == get_engine(name)
         IN
         /\ model' = unl.model
         /\ loaded' = unl.loaded
         /\ engine' = [engine EXCEPT ![t] =
                         IF unl.raised # None THEN None ELSE found.value]
         /\ IF unl.raised # None
              THEN /\ Finish(t, unl.raised, None)
                   /\ log' = [log EXCEPT ![t] = calls]
                   /\ UNCHANGED <<active_engine, active_name>>
              ELSE
                /\ active_engine' = IF NeedsUnload THEN None ELSE active_engine
                /\ active_name' = IF NeedsUnload THEN None ELSE active_name
                /\ IF found.raised # None
                     THEN /\ Finish(t, found.raised, None)
                          /\ log' = [log EXCEPT ![t] = calls]
                     ELSE
                       /\ log' = [log EXCEPT ![t] =
                                    Append(calls, "load_model")]
                       /\ IF load_model_call(found.value) # None
                            THEN Finish(t, load_model_call(found.value), None)
                            ELSE /\ pc' = [pc EXCEPT ![t] = "load_exec"]
                                 /\ fut' = [fut EXCEPT ![t] = "pending"]
                                 /\ UNCHANGED <<res, ret>>

\* The executor thread finishes the blocking part of load_model.
LoadExec(t) ==
  /\ pc[t] = "load_exec"
  /\ fut[t] = "pending"
  /\ \E backend_ok \in BOOLEAN :
       LET out == load_model_sync(engine[t], backend_ok)
       IN /\ model' = out.model
          /\ fut' = [fut EXCEPT ![t] =
                       IF out.raised = None THEN "ok" ELSE out.raised]
  /\ UNCHANGED <<started, sd_vars, api_vars, engine, probe, mgr_vars, loaded, deploy_vars, ws_vars,
                 pc, op, arg, res, ret, log, par_vars, gen_vars>>

\* activate_engine resumes after `await engine.load_model()`.
LoadResume(t) ==
  /\ pc[t] = "load_exec"
  /\ fut[t] # "pending"
  /\ LET eng == engine[t]
     IN IF fut[t] # "ok"
          THEN /\ Finish(t, fut[t], None)
               /\ UNCHANGED <<active_engine, active_name, eng_vars>>
          ELSE /\ model' = load_model_resume(eng).model
               /\ loaded' = load_model_resume(eng).loaded
               /\ active_engine' = eng
               /\ active_name' = arg[t]
               /\ Finish(t, "ok", eng)
  /\ UNCHANGED <<started, sd_vars, api_vars, engine, probe, engines, deploy_vars, ws_vars, op, arg, log, par_vars, gen_vars>>

\* get_available_voices(): kokoro returns its constant list; fish-speech
\* and f5-tts read every metadata.json of the voices directory, where
\* json.loads raises JSONDecodeError (a ValueError) on a corrupt file and
\* meta["name"] raises KeyError on an incomplete one.
get_available_voices(i, scan) ==
  IF get_name(i) = Kokoro \/ scan = "ok" THEN None
  ELSE IF scan = "bad_json" THEN "ValueError" ELSE "KeyError"

\* list_engine_voices(name): GET /tts/engines/{name}/voices.
ListVoices(t, name) ==
  /\ started
  /\ pc[t] = "idle"
  /\ op' = [op EXCEPT ![t] = "voices"]
  /\ arg' = [arg EXCEPT ![t] = name]
  /\ LET found == get_engine(name)
     IN IF found.raised = "ValueError"
          THEN Finish(t, "HTTP404", None)
          ELSE \E scan \in {"ok", "bad_json", "bad_meta"} :
                 LET err == get_available_voices(found.value, scan)
                 IN Finish(t, IF err = None THEN "HTTP200"
                              ELSE IF err = "ValueError" THEN "HTTP404"
                              ELSE "HTTP500",
                           found.value)
  /\ UNCHANGED <<started, sd_vars, api_vars, engine, probe, mgr_vars, eng_vars, deploy_vars, ws_vars, log, par_vars, gen_vars>>

\* `import <package>` in a probe: it succeeds, or the package is not
\* installed (ImportError), or it is installed and its import-time code
\* raises (broken: a shared library that fails to load, an incompatible
\* dependency).
import_package(pkg, broken) ==
  IF pkg \notin installed THEN "ImportError"
  ELSE IF broken THEN "OSError" ELSE None

\* is_available() as a call: True when the import succeeds, False on
\* ImportError; every other error of the import leaves the call.
is_available_call(pkg, broken) ==
  LET e == import_package(pkg, broken)
  IN IF e = None THEN [raised |-> None, value |-> "True"]
     ELSE IF e = "ImportError" THEN [raised |-> None, value |-> "False"]
     ELSE [raised |-> e, value |-> None]

\* is_available() of the engine or service whose package is pkg is called.
IsAvailableCall(t, pkg) ==
  /\ started
  /\ pc[t] = "idle"
  /\ op' = [op EXCEPT ![t] = "is_available"]
  /\ arg' = [arg EXCEPT ![t] = pkg]
  /\ \E broken \in BOOLEAN :
       LET out == is_available_call(pkg, broken)
       IN Finish(t, IF out.raised = None THEN "ok" ELSE out.raised, out.value)
  /\ UNCHANGED <<started, sd_vars, api_vars, engine, probe, mgr_vars, eng_vars, deploy_vars,
                 ws_vars, log, par_vars, gen_vars>>

\* register_engines: the names in the order they are registered, which is
\* the order in which the dict _engines hands out its items.
RegistrationOrder == <<Kokoro, Fish, F5>>

items(d) == SelectSeq(RegistrationOrder, LAMBDA n : n \in DOMAIN d)

IsReportedLoadedByEngine(name) == IsLoaded(engines[name])

\* get_available_engines line 38: the "loaded" field of an entry.
IsReportedLoaded(name) == name = active_name

\* get_available_engines(): one entry per item of _engines (of its fields
\* the name, "available" and "loaded"), unless get_available_voices of an
\* engine raises on the voices directory as the scan finds it.
get_available_engines(scan) ==
  LET names == items(engines)
      failing == {k \in 1..Len(names) :
                    get_available_voices(engines[names[k]], scan) # None}
      first == CHOOSE k \in failing : \A l \in failing : k <= l
  IN IF failing # {}
       THEN [raised |-> get_available_voices(engines[names[first]], scan),
             value |-> <<>>]
       ELSE [raised |-> None,
             value |-> [k \in 1..Len(names) |->
                          [name |-> names[k],
                           available |-> is_available(engines[names[k]]),
                           loaded |-> IsReportedLoaded(names[k])]]]

\* list_engines: GET /tts/engines.
ListEngines(t) ==
  /\ started
  /\ pc[t] = "idle"
  /\ op' = [op EXCEPT ![t] = "engines"]
  /\ \E scan \in {"ok", "bad_json", "bad_meta"} :
       LET out == get_available_engines(scan)
       IN /\ listing' = [listing EXCEPT ![t] = out.value]
          /\ Finish(t, IF out.raised = None THEN "ok" ELSE out.raised, None)
  /\ UNCHANGED <<started, engine, probe, sd_vars, sample_words, max_new_tokens, voices,
                 text_len, mgr_vars, eng_vars, deploy_vars, ws_vars, arg, log,
                 par_vars, gen_vars>>

\* Voice profiles one run creates.
MaxVoices == 2

supports_voice_cloning(i) ==
  CASE get_name(i) = Kokoro -> FALSE
    [] i = FishSpeechEngine -> TRUE
    [] i = F5TTSEngine -> TRUE

profile_engine_pasted(i) == "fish-speech"

\* The engine field clone_voice of each engine writes into the profile.
profile_engine(i) ==
  CASE i = FishSpeechEngine -> "fish-speech"
    [] i = F5TTSEngine -> "f5-tts"

\* clone_voice(): kokoro inherits TTSEngine.clone_voice, which raises;
\* fish-speech and f5-tts copy the reference audio (copy_ok false: the
\* copy or the write of metadata.json raises) and save the profile.
clone_voice(i, copy_ok) ==
  IF get_name(i) = Kokoro
    THEN [raised |-> "NotImplementedError", value |-> None, voices |-> voices]
    ELSE IF ~copy_ok
      THEN [raised |-> "OSError", value |-> None, voices |-> voices]
      ELSE [raised |-> None, value |-> profile_engine(i),
            voices |-> Append(voices, profile_engine(i))]

\* clone_voice of the engine registered as name is called; the profile's
\* engine field is kept as what the call returned.
CloneVoice(t, name) ==
  /\ started
  /\ pc[t] = "idle"
  /\ Len(voices) < MaxVoices
  /\ op' = [op EXCEPT ![t] = "clone_voice"]
  /\ arg' = [arg EXCEPT ![t] = name]
  /\ \E copy_ok \in BOOLEAN :
       LET out == clone_voice(engines[name], copy_ok)
       IN /\ voices' = out.voices
          /\ Finish(t, IF out.raised = None THEN "ok" ELSE out.raised,
                    out.value)
  /\ UNCHANGED <<started, engine, probe, sd_vars, sample_words, max_new_tokens, listing,
                 text_len, mgr_vars, eng_vars, deploy_vars, ws_vars, log,
                 par_vars, gen_vars>>

\* generate(request, progress_callback): what the call tells its caller
\* (callback values) and what it does (the inference handed to the
\* executor, the inference having produced audio), as entries of log.
Cb01 == "cb:0.1"
Cb03 == "cb:0.3"
Cb08 == "cb:0.8"
Cb10 == "cb:1.0"
Dispatch == "dispatch"
Inferred == "inferred"

\* The callback values before the inference: fish-speech reports the text
\* preparation and the start of the generation, the others the start.
CallbacksBefore(i) ==
  IF i = FishSpeechEngine THEN <<Cb01, Cb03>> ELSE <<Cb01>>

\* _generate_sync in the executor thread, on the engine as it is when the
\* thread runs; infer_ok false: the backend fails; empty: kokoro's
\* pipeline yields no segment.
generate_sync(i, infer_ok, empty) ==
  CASE get_name(i) = Kokoro ->
         IF model[i] = None THEN "TypeError"
         ELSE IF ~infer_ok THEN "RuntimeError"
         ELSE IF empty THEN "empty" ELSE "ok"
    [] i = FishSpeechEngine ->
         IF infer_ok THEN "ok" ELSE "RuntimeError"
    [] i = F5TTSEngine ->
         IF model[i] = None THEN "AttributeError"
         ELSE IF infer_ok THEN "ok" ELSE "RuntimeError"

HasReportedCompleteAlways(i, saved) == TRUE

\* The engine reports 1.0 once the inference has returned; kokoro first
\* concatenates and writes the audio and reports 1.0 only after that.
HasReportedComplete(i, saved) == get_name(i) # Kokoro \/ saved

\* generate() from its call to the executor: the not-loaded guard, the
\* first callbacks, the dispatch of _generate_sync.
\* kind is the operation that makes the call, calls what that operation
\* has entered in log before.
GenerateCallAs(t, kind, name, calls) ==
  /\ started
  /\ pc[t] = "idle"
  /\ op' = [op EXCEPT ![t] = kind]
  /\ arg' = [arg EXCEPT ![t] = name]
  /\ IF ~IsLoaded(engines[name])
       THEN /\ Finish(t, "RuntimeError", None)
            /\ log' = [log EXCEPT ![t] = calls]
       ELSE /\ log' = [log EXCEPT ![t] =
                         calls \o Append(CallbacksBefore(engines[name]),
                                         Dispatch)]
            /\ pc' = [pc EXCEPT ![t] = "g_exec"]
            /\ fut' = [fut EXCEPT ![t] = "pending"]
            /\ UNCHANGED <<res, ret>>
  /\ UNCHANGED <<started, engine, probe, sd_vars, mgr_vars, eng_vars, deploy_vars, ws_vars,
                 par_vars, gen_vars>>

GenerateCall(t, name) ==
  /\ GenerateCallAs(t, "generate", name, <<>>)
  /\ UNCHANGED api_vars

MinTextLength == 1
MaxTextLength == 100000

\* Text lengths of the requests: both sides of either bound.
TextLengths == {0, MinTextLength, MaxTextLength, MaxTextLength + 1}

ValidTextNoMin(len) == len <= MaxTextLength

\* GenerateRequest.text: Field(..., min_length=1, max_length=100000).
ValidText(len) == len >= MinTextLength /\ len <= MaxTextLength

\* The generation call boundary: the request is validated; a valid one has
\* the active engine generate, and is refused when no engine is active.
GenerateEndpoint(t, len) ==
  /\ text_len' = [text_len EXCEPT ![t] = len]
  /\ UNCHANGED <<sample_words, max_new_tokens, listing, voices>>
  /\ IF ValidText(len) /\ get_active_engine # None
       THEN GenerateCallAs(t, "generate_request", get_active_name,
                           <<"generate">>)
       ELSE /\ started
            /\ pc[t] = "idle"
            /\ op' = [op EXCEPT ![t] = "generate_request"]
            /\ FinishAs(t, "generate_request",
                        IF ValidText(len) THEN "ModelNotLoadedError"
                        ELSE "ValidationError", None)
            /\ UNCHANGED <<started, engine, probe, sd_vars, mgr_vars, eng_vars, deploy_vars,
                           ws_vars, par_vars, gen_vars, arg, log>>

\* The executor thread runs _generate_sync.
GenExec(t) ==
  /\ pc[t] = "g_exec"
  /\ fut[t] = "pending"
  /\ \E infer_ok, empty \in BOOLEAN :
       fut' = [fut EXCEPT ![t] =
                 generate_sync(engines[arg[t]], infer_ok, empty)]
  /\ UNCHANGED <<started, sd_vars, api_vars, engine, probe, mgr_vars, eng_vars, deploy_vars, ws_vars, par_vars,
                 gen_vars, pc, op, arg, res, ret, log>>

\* generate() resumes after the executor: an inference error propagates;
\* kokoro rejects an empty result, reports 0.8 and saves the audio; 1.0 is
\* reported; fish-speech and f5-tts then read the file's info.
GenResume(t) ==
  /\ pc[t] = "g_exec"
  /\ fut[t] # "pending"
  /\ LET i == engines[arg[t]]
     IN IF fut[t] # "ok"
          THEN /\ Finish(t, IF fut[t] = "empty" THEN "RuntimeError"
                            ELSE fut[t], None)
               /\ UNCHANGED log
          ELSE \E saved \in BOOLEAN :
                 LET after == IF get_name(i) = Kokoro
                                THEN <<Inferred, Cb08>> ELSE <<Inferred>>
                     done == IF HasReportedComplete(i, saved)
                               THEN Append(after, Cb10) ELSE after
                 IN /\ log' = [log EXCEPT ![t] = log[t] \o done]
                    /\ Finish(t, IF saved THEN "result"
                                 ELSE IF get_name(i) = Kokoro THEN "OSError"
                                 ELSE "RuntimeError", None)
  /\ UNCHANGED <<started, sd_vars, api_vars, engine, probe, mgr_vars, eng_vars, deploy_vars, ws_vars, par_vars,
                 gen_vars, op, arg>>

\* unload_model() of the engine registered as name, called on its own.
UnloadModelCall(t, name) ==
  /\ started
  /\ pc[t] = "idle"
  /\ op' = [op EXCEPT ![t] = "unload_model"]
  /\ arg' = [arg EXCEPT ![t] = name]
  /\ \E cuda_ok \in BOOLEAN :
       LET unl == unload_model(engines[name], cuda_ok)
       IN /\ model' = unl.model
          /\ loaded' = unl.loaded
          /\ Finish(t, IF unl.raised = None THEN "ok" ELSE unl.raised, None)
  /\ UNCHANGED <<started, sd_vars, api_vars, engine, probe, mgr_vars, deploy_vars, ws_vars, log, par_vars,
                 gen_vars>>

\* install_engine (POST /tts/engines/install/{name}) and _run_pip.

\* The keys of INSTALL_COMMANDS, and the names a request can carry.
INSTALL_COMMANDS == {Kokoro, Fish, F5, ParlerPkg}
InstallNames == INSTALL_COMMANDS \cup {"unknown-package"}

\* Output lines one pip run may print beyond the ones that decide a retry.
MaxLines == 0

\* What the call of a task does, as entries of its log: the stage of every
\* install_progress event it broadcasts, the pip commands it runs and the
\* exit of each.
StStarting == "stage:starting"
StInstalling == "stage:installing"
StComplete == "stage:complete"
StError == "stage:error"
PipUpgrade == "pip install --upgrade pip"
PipInstall == "pip install <packages> --no-cache-dir"
PipRetry == "pip install <packages> --no-cache-dir --no-deps"

\* The messages pip can print that install_engine looks for.
PermissionMessages == {"Access is denied", "Permission denied", "WinError 5"}
PipOutputs == {{}, {"Permission denied"}, {"No matching distribution"}}

\* What one run of pip gives: its exit code and the messages in its
\* output, or the exception of a process that could not be started.
PipRuns ==
  [raised : {None}, rc : {0, 1}, out : PipOutputs, lines : 0..MaxLines]
    \cup [raised : {"OSError"}, rc : {1}, out : {{}}, lines : {0}]

\* The exit of a pip run as an entry of the log.
Exit(run) ==
  IF run.raised # None THEN "raised"
  ELSE IF run.rc = 0 THEN "exit 0"
  ELSE IF run.out \cap PermissionMessages # {} THEN "exit 1: permission"
  ELSE "exit 1"

is_permission_error(full_output) ==
  \/ "Access is denied" \in full_output
  \/ "Permission denied" \in full_output
  \/ "WinError 5" \in full_output

\* A retry after every failed install.
NeedsRetryOnFailure(rc, full_output) == rc # 0

\* install_engine lines 118-126: the install is retried with --no-deps.
NeedsRetry(rc, full_output) == rc # 0 /\ is_permission_error(full_output)

\* _run_pip: one "installing" event for each line pip printed, then the
\* exit of the process.
run_pip(run) ==
  [k \in 1..(run.lines + Cardinality(run.out)) |-> StInstalling]
    \o <<Exit(run)>>

\* The end of install_engine: 'complete' and the answer, or 'error' and
\* HTTP 500 (lines 139-168; lines 172-180 for an exception).
InstallEnds(t, done, run) ==
  /\ log' = [log EXCEPT ![t] = done \o
               <<IF run.raised = None /\ run.rc = 0
                   THEN StComplete ELSE StError>>]
  /\ Finish(t, IF run.raised = None /\ run.rc = 0
                 THEN "HTTP200" ELSE "HTTP500", None)

\* install_engine from its call to the start of the pip upgrade.
InstallCall(t, name) ==
  /\ started
  /\ pc[t] = "idle"
  /\ op' = [op EXCEPT ![t] = "install"]
  /\ arg' = [arg EXCEPT ![t] = name]
  /\ IF name \notin INSTALL_COMMANDS
       THEN /\ Finish(t, "HTTP404", None)
            /\ UNCHANGED log
       ELSE /\ log' = [log EXCEPT ![t] =
                         <<StStarting, StInstalling, PipUpgrade>>]
            /\ pc' = [pc EXCEPT ![t] = "i_upgrade"]
            /\ UNCHANGED <<fut, res, ret>>
  /\ UNCHANGED <<started, sd_vars, api_vars, engine, probe, mgr_vars,
                 eng_vars, deploy_vars, ws_vars, par_vars, gen_vars>>

\* The pip upgrade ends (lines 101-115): whatever its exit code the
\* install is started; an exception ends the call.
PipUpgradeEnds(t) ==
  /\ pc[t] = "i_upgrade"
  /\ \E run \in PipRuns :
       LET done == log[t] \o run_pip(run)
       IN IF run.raised # None
            THEN InstallEnds(t, done, run)
            ELSE /\ log' = [log EXCEPT ![t] =
                              done \o <<StInstalling, PipInstall>>]
                 /\ pc' = [pc EXCEPT ![t] = "i_install"]
                 /\ UNCHANGED <<fut, res, ret>>
  /\ UNCHANGED <<started, sd_vars, api_vars, engine, probe, mgr_vars,
                 eng_vars, deploy_vars, ws_vars, op, arg, par_vars, gen_vars>>

\* The install ends (lines 112-137): retried once on a permission error.
PipInstallEnds(t) ==
  /\ pc[t] = "i_install"
  /\ \E run \in PipRuns :
       LET done == log[t] \o run_pip(run)
       IN IF run.raised = None /\ NeedsRetry(run.rc, run.out)
            THEN /\ log' = [log EXCEPT ![t] =
                              done \o <<StInstalling, PipRetry>>]
                 /\ pc' = [pc EXCEPT ![t] = "i_retry"]
                 /\ UNCHANGED <<fut, res, ret>>
            ELSE InstallEnds(t, done, run)
  /\ UNCHANGED <<started, sd_vars, api_vars, engine, probe, mgr_vars,
                 eng_vars, deploy_vars, ws_vars, op, arg, par_vars, gen_vars>>

\* The retry ends (lines 134-168).
PipRetryEnds(t) ==
  /\ pc[t] = "i_retry"
  /\ \E run \in PipRuns : InstallEnds(t, log[t] \o run_pip(run), run)
  /\ UNCHANGED <<started, sd_vars, api_vars, engine, probe, mgr_vars,
                 eng_vars, deploy_vars, ws_vars, op, arg, par_vars, gen_vars>>

\* The request is answered; the task is free for the next one.
Return(t) ==
  /\ pc[t] = "done"
  /\ pc' = [pc EXCEPT ![t] = "idle"]
  /\ op' = [op EXCEPT ![t] = None]
  /\ arg' = [arg EXCEPT ![t] = None]
  /\ res' = [res EXCEPT ![t] = None]
  /\ ret' = [ret EXCEPT ![t] = None]
  /\ log' = [log EXCEPT ![t] = <<>>]
  /\ req' = [req EXCEPT ![t] = FALSE]
  /\ cancel_event' = [cancel_event EXCEPT ![t] = FALSE]
  /\ cancelled' = [cancelled EXCEPT ![t] = FALSE]
  /\ wk' = [wk EXCEPT ![t] = None]
  /\ polls' = [polls EXCEPT ![t] = 0]
  /\ wrote' = [wrote EXCEPT ![t] = FALSE]
  /\ msg' = [msg EXCEPT ![t] = 0]
  /\ b_idx' = [b_idx EXCEPT ![t] = 0]
  /\ cur' = [cur EXCEPT ![t] = 0]
  /\ disconnected' = [disconnected EXCEPT ![t] = <<>>]
  /\ snap' = [snap EXCEPT ![t] = {}]
  /\ interfered' = [interfered EXCEPT ![t] = FALSE]
  /\ listing' = [listing EXCEPT ![t] = <<>>]
  /\ text_len' = [text_len EXCEPT ![t] = 0]
  /\ engine' = [engine EXCEPT ![t] = None]
  /\ probe' = [probe EXCEPT ![t] = None]
  /\ UNCHANGED <<started, sd_vars, sample_words, max_new_tokens, voices,
                 mgr_vars, eng_vars, deploy_vars, ws_shared, fut, par_vars>>

----------------------------------------------------------------------------
\* ParlerVoiceService (the prompt-voice service).

MiniV11 == "parler-mini-v1.1"
LargeV1 == "parler-large-v1"
MiniV1 == "parler-mini-v1"
VOICE_MODELS == {MiniV11, LargeV1, MiniV1}

\* Model ids a request can carry: two keys of VOICE_MODELS and a non-key.
RequestModels == {MiniV11, LargeV1, "parler-unknown"}

\* Poll timeouts one generate_preview call may see before its worker ends.
MaxPolls == 1

ParState ==
  [model |-> p_model, tokenizer |-> p_tokenizer,
   loaded |-> p_loaded, id |-> p_loaded_model_id]

SetPar(s) ==
  /\ p_model' = s.model
  /\ p_tokenizer' = s.tokenizer
  /\ p_loaded' = s.loaded
  /\ p_loaded_model_id' = s.id

\* An unload that releases nothing.
unload_keep(s) == s

\* unload(): a no-op unless _loaded; it contains no await.
unload(s) ==
  IF ~s.loaded
    THEN s
    ELSE [model |-> None, tokenizer |-> None, loaded |-> FALSE, id |-> None]

\* EngineManager defines no deactivate(): the attribute lookup in
\* `await engine_manager.deactivate()` raises and the manager is untouched.
deactivate ==
  [raised |-> "AttributeError", engine |-> active_engine, name |-> active_name]

WorkerDoneAudioOnly(t) == wk[t] = "audio"

\* gen_future is done: the worker returned audio, returned None or raised.
WorkerDone(t) == wk[t] \in {"audio", "none", "raised"}

IsCancelledOutcomeAudioOnly(c, audio) == audio = "none"

\* generate_preview line 311.
IsCancelledOutcome(c, audio) == c \/ audio = "none"

\* The progress events of load() and generate_preview(), as stage:percent.
EvLoading10 == "loading_model:10"
EvLoading30 == "loading_model:30"
EvLoading80 == "loading_model:80"
EvModelReady == "model_ready:100"
EvGenerating == "generating:50"
EvComplete == "complete:100"

\* The "percent" field of a progress event.
Percent(e) ==
  CASE e = EvLoading10 -> 10
    [] e = EvLoading30 -> 30
    [] e = EvLoading80 -> 80
    [] e = EvModelReady -> 100
    [] e = EvGenerating -> 50
    [] e = EvComplete -> 100

\* A _broadcast without its try/except: the error of the channel leaves it.
broadcast_unguarded(ch) == IF ch = "down" THEN "ConnectionError" ELSE None

\* _broadcast(msg): `try: ... await ws_manager.broadcast(msg)` with `except
\* Exception: pass`; what it raises into the service on channel ch.
p_broadcast(ch) == None

\* An exception of the _broadcast the call of task t was awaiting ends the
\* call; load() and generate_preview catch nothing.
PublishAborts(t) ==
  /\ Finish(t, p_broadcast(channel), None)
  /\ UNCHANGED <<started, sd_vars, api_vars, engine, probe, mgr_vars,
                 eng_vars, deploy_vars, ws_vars, op, arg, log, par_vars,
                 gen_vars>>

\* The call of task t hands event e to _broadcast.
Emit(t, e) == log' = [log EXCEPT ![t] = Append(log[t], e)]

\* load(model_id) from its call to the first broadcast; kind is the
\* operation that runs it ("load" itself or "preview", generate_preview).
ServiceLoadCall(t, kind, model_id, has_req) ==
  /\ started
  /\ pc[t] = "idle"
  /\ op' = [op EXCEPT ![t] = kind]
  /\ arg' = [arg EXCEPT ![t] = model_id]
  /\ req' = [req EXCEPT ![t] = has_req]
  /\ UNCHANGED <<started, sd_vars, api_vars, engine, probe, mgr_vars, eng_vars, deploy_vars, ws_vars,
                 cancel_event, cancelled, wk, polls, wrote>>
  /\ IF p_loaded /\ p_loaded_model_id = model_id
       THEN /\ UNCHANGED <<par_vars, log>>
            /\ IF kind = "load"
                 THEN FinishAs(t, kind, "ok", None)
                 ELSE /\ pc' = [pc EXCEPT ![t] = "p_ready"]
                      /\ UNCHANGED <<fut, res, ret>>
       ELSE /\ SetPar(unload(ParState))
            /\ IF model_id \notin VOICE_MODELS
                 THEN /\ FinishAs(t, kind, "ValueError", None)
                      /\ UNCHANGED log
                 ELSE /\ pc' = [pc EXCEPT ![t] = "p_bc10"]
                      /\ Emit(t, EvLoading10)
                      /\ UNCHANGED <<fut, res, ret>>

LoadCall(t, model_id) == ServiceLoadCall(t, "load", model_id, FALSE)

PreviewCall(t, model_id, has_req) ==
  ServiceLoadCall(t, "preview", model_id, has_req)

\* preview_from_prompt (POST /voices/create/preview-from-prompt): 400
\* unless the service is available, else generate_preview with the request.
PreviewFromPrompt(t, model_id) ==
  IF ParlerPkg \in installed
    THEN ServiceLoadCall(t, PreviewFromPromptOp, model_id, TRUE)
    ELSE /\ started
         /\ pc[t] = "idle"
         /\ op' = [op EXCEPT ![t] = PreviewFromPromptOp]
         /\ arg' = [arg EXCEPT ![t] = model_id]
         /\ pc' = [pc EXCEPT ![t] = "done"]
         /\ res' = [res EXCEPT ![t] = "HTTP400"]
         /\ UNCHANGED <<started, sd_vars, api_vars, engine, probe, mgr_vars, eng_vars,
                        deploy_vars, ws_vars, fut, ret, log, par_vars, gen_vars>>

\* ParlerVoiceService.unload() called on its own.
UnloadCall(t) ==
  /\ started
  /\ pc[t] = "idle"
  /\ op' = [op EXCEPT ![t] = "unload"]
  /\ SetPar(unload(ParState))
  /\ Finish(t, "ok", None)
  /\ UNCHANGED <<started, sd_vars, api_vars, engine, probe, mgr_vars, eng_vars, deploy_vars, ws_vars, arg, log, gen_vars>>

\* load() lines 121-146: the imports, the eviction of the active engine,
\* then the model weights are handed to the executor.
LoadImports(t) ==
  /\ pc[t] = "p_bc10"
  /\ IF p_broadcast(channel) # None
       THEN PublishAborts(t)
       ELSE
         /\ IF ParlerPkg \notin installed
              THEN /\ Finish(t, "ImportError", None)
                   /\ UNCHANGED log
              ELSE IF get_active_engine # None
                THEN /\ Finish(t, deactivate.raised, None)
                     /\ UNCHANGED log
                ELSE /\ pc' = [pc EXCEPT ![t] = "p_load_model"]
                     /\ Emit(t, EvLoading30)
                     /\ UNCHANGED <<fut, res, ret>>
         /\ active_engine' = IF ParlerPkg \in installed /\ get_active_engine # None
                               THEN deactivate.engine ELSE active_engine
         /\ active_name' = IF ParlerPkg \in installed /\ get_active_engine # None
                             THEN deactivate.name ELSE active_name
         /\ UNCHANGED <<started, sd_vars, api_vars, engine, probe, engines, eng_vars, deploy_vars, ws_vars, op, arg,
                        par_vars, gen_vars>>

\* load() lines 141-153: from_pretrained(...).to(device) returns or raises.
ModelLoaded(t) ==
  /\ pc[t] = "p_load_model"
  /\ IF p_broadcast(channel) # None
       THEN PublishAborts(t)
       ELSE
         /\ \E weights_ok \in BOOLEAN :
              IF weights_ok
                THEN /\ p_model' = arg[t]
                     /\ pc' = [pc EXCEPT ![t] = "p_load_tok"]
                     /\ Emit(t, EvLoading80)
                     /\ UNCHANGED <<fut, res, ret>>
                ELSE /\ Finish(t, "OSError", None)
                     /\ UNCHANGED <<p_model, log>>
         /\ UNCHANGED <<started, sd_vars, api_vars, engine, probe, mgr_vars, eng_vars, deploy_vars, ws_vars, op, arg,
                        p_tokenizer, p_loaded, p_loaded_model_id, gen_vars>>

\* load() lines 155-169: the tokenizer returns or raises; on success the
\* service is marked loaded.
TokenizerLoaded(t) ==
  /\ pc[t] = "p_load_tok"
  /\ IF p_broadcast(channel) # None
       THEN PublishAborts(t)
       ELSE
         /\ \E tok_ok \in BOOLEAN :
              IF tok_ok
                THEN /\ p_tokenizer' = arg[t]
                     /\ p_loaded' = TRUE
                     /\ p_loaded_model_id' = arg[t]
                     /\ pc' = [pc EXCEPT ![t] = "p_ready"]
                     /\ Emit(t, EvModelReady)
                     /\ UNCHANGED <<fut, res, ret>>
                ELSE /\ Finish(t, "OSError", None)
                     /\ UNCHANGED <<p_tokenizer, p_loaded, p_loaded_model_id, log>>
         /\ UNCHANGED <<started, sd_vars, api_vars, engine, probe, mgr_vars, eng_vars, deploy_vars, ws_vars, op, arg,
                        p_model, gen_vars>>

\* load() has returned (after its last broadcast); generate_preview
\* lines 218-282 create the cancel flag and dispatch the worker.
Ready(t) ==
  /\ pc[t] = "p_ready"
  /\ IF p_broadcast(channel) # None
       THEN PublishAborts(t)
       ELSE
         /\ IF op[t] = "load"
              THEN /\ Finish(t, "ok", None)
                   /\ UNCHANGED <<cancel_event, cancelled, wk, polls, log>>
              ELSE /\ Emit(t, EvGenerating)
                   /\ cancel_event' = [cancel_event EXCEPT ![t] = FALSE]
                   /\ cancelled' = [cancelled EXCEPT ![t] = FALSE]
                   /\ wk' = [wk EXCEPT ![t] = "queued"]
                   /\ polls' = [polls EXCEPT ![t] = 0]
                   /\ pc' = [pc EXCEPT ![t] = "p_wait"]
                   /\ UNCHANGED <<fut, res, ret>>
         /\ UNCHANGED <<started, sd_vars, api_vars, engine, probe, mgr_vars, eng_vars, deploy_vars, ws_vars, op, arg,
                        par_vars, req, wrote>>

\* _generate lines 244-272 in the worker thread: it reads the tokenizer
\* and the model of the service as they are when it runs.
WorkerStart(t) ==
  /\ wk[t] = "queued"
  /\ wk' = [wk EXCEPT ![t] =
              IF p_tokenizer = None \/ p_model = None
                THEN "raised" ELSE "generating"]
  /\ UNCHANGED <<started, sd_vars, api_vars, engine, probe, mgr_vars, eng_vars, deploy_vars, ws_vars, task_vars,
                 par_vars, req, cancel_event, cancelled, polls, wrote>>

\* _generate lines 272-277: model.generate ends (by itself or stopped by
\* CancelCheck) or raises; the flag is read once more before returning.
WorkerFinish(t) ==
  /\ wk[t] = "generating"
  /\ \E gen_ok \in BOOLEAN :
       wk' = [wk EXCEPT ![t] =
                IF ~gen_ok THEN "raised"
                ELSE IF cancel_event[t] THEN "none" ELSE "audio"]
  /\ UNCHANGED <<started, sd_vars, api_vars, engine, probe, mgr_vars, eng_vars, deploy_vars, ws_vars, task_vars,
                 par_vars, req, cancel_event, cancelled, polls, wrote>>

\* generate_preview lines 311-333, once the wait loop has been left with
\* the worker's value: cancellation, or the preview file is written and
\* announced.
AfterLoop(t, c, audio) ==
  IF IsCancelledOutcome(c, audio)
    THEN /\ SetPar(unload(ParState))
         /\ Finish(t, "GenerationCancelled", None)
         /\ UNCHANGED <<wrote, log>>
    ELSE \E write_ok \in BOOLEAN :
         IF write_ok
           THEN /\ wrote' = [wrote EXCEPT ![t] = TRUE]
                /\ pc' = [pc EXCEPT ![t] = "p_complete"]
                /\ Emit(t, EvComplete)
                /\ UNCHANGED <<fut, res, ret, par_vars>>
           ELSE /\ Finish(t, "OSError", None)
                /\ UNCHANGED <<wrote, par_vars, log>>

\* wait_for(shield(gen_future)) returns the worker's value or raises its
\* exception.
PollReturn(t) ==
  /\ pc[t] = "p_wait"
  /\ IF p_broadcast(channel) # None
       THEN PublishAborts(t)
       ELSE
         /\ WorkerDone(t)
         /\ IF wk[t] = "raised"
              THEN /\ Finish(t, "RuntimeError", None)
                   /\ UNCHANGED <<par_vars, wrote, log>>
              ELSE AfterLoop(t, cancelled[t], wk[t])
         /\ UNCHANGED <<started, sd_vars, api_vars, engine, probe, mgr_vars, eng_vars, deploy_vars, ws_vars, op, arg,
                        req, cancel_event, cancelled, wk, polls>>

\* A timed-out wait that cancels the future it waits on: a queued worker
\* never runs and a running one is abandoned.
unshielded(w) == IF w \in {"queued", "generating"} THEN "cancelled" ELSE w

\* asyncio.shield(gen_future) under wait_for: the timeout cancels the
\* shield's outer future only, the worker's future stays as it is.
shield(w) == w

\* wait_for times out while the worker runs: without a request object the
\* heartbeat is broadcast and the wait starts again.
PollTimeout(t) ==
  /\ pc[t] = "p_wait"
  /\ IF p_broadcast(channel) # None
       THEN PublishAborts(t)
       ELSE
         /\ ~WorkerDone(t)
         /\ polls[t] < MaxPolls
         /\ polls' = [polls EXCEPT ![t] = polls[t] + 1]
         /\ pc' = [pc EXCEPT ![t] = IF req[t] THEN "p_probe" ELSE "p_wait"]
         /\ IF req[t] THEN UNCHANGED log ELSE Emit(t, EvGenerating)
         /\ wk' = [wk EXCEPT ![t] = shield(wk[t])]
         /\ UNCHANGED <<started, sd_vars, api_vars, engine, probe, mgr_vars, eng_vars, deploy_vars, ws_vars, op, arg, fut, res,
                        ret, par_vars, req, cancel_event, cancelled, wrote>>

\* A probe whose failure counts as a disconnect.
SeesDisconnectOrFailure(answer) == answer # "connected"

\* `if await request.is_disconnected():` inside `try: ... except Exception:
\* pass`: the branch is taken only on a true answer, a raising probe falls
\* through to the heartbeat.
SeesDisconnect(answer) == answer = "disconnected"

\* request.is_disconnected() answers (lines 293-309).
Probe(t) ==
  /\ pc[t] = "p_probe"
  /\ \E answer \in {"connected", "disconnected", "raises"} :
     /\ probe' = [probe EXCEPT ![t] = answer]
     /\ IF SeesDisconnect(answer)
         THEN /\ cancel_event' = [cancel_event EXCEPT ![t] = TRUE]
              /\ cancelled' = [cancelled EXCEPT ![t] = TRUE]
              /\ IF ~WorkerDone(t)
                   THEN /\ pc' = [pc EXCEPT ![t] = "p_join"]
                        /\ UNCHANGED <<fut, res, ret, par_vars, wrote, log>>
                   ELSE IF wk[t] = "raised"
                     THEN /\ pc' = [pc EXCEPT ![t] = "p_wait"]
                          /\ Emit(t, EvGenerating)
                          /\ UNCHANGED <<fut, res, ret, par_vars, wrote>>
                     ELSE AfterLoop(t, TRUE, wk[t])
         ELSE /\ pc' = [pc EXCEPT ![t] = "p_wait"]
              /\ Emit(t, EvGenerating)
              /\ UNCHANGED <<fut, res, ret, par_vars, wrote,
                             cancel_event, cancelled>>
  /\ UNCHANGED <<started, sd_vars, api_vars, engine, mgr_vars, eng_vars, deploy_vars, ws_vars, op, arg,
                 req, wk, polls>>

\* `audio = await gen_future` (line 299) ends: a value leaves the loop, an
\* exception is swallowed by the `except Exception: pass` of line 301.
Join(t) ==
  /\ pc[t] = "p_join"
  /\ WorkerDone(t)
  /\ IF wk[t] = "raised"
       THEN /\ pc' = [pc EXCEPT ![t] = "p_wait"]
            /\ Emit(t, EvGenerating)
            /\ UNCHANGED <<fut, res, ret, par_vars, wrote>>
       ELSE AfterLoop(t, cancelled[t], wk[t])
  /\ UNCHANGED <<started, sd_vars, api_vars, engine, probe, mgr_vars, eng_vars, deploy_vars, ws_vars, op, arg,
                 req, cancel_event, cancelled, wk, polls>>

\* generate_preview lines 335-338: the auto-unload and the return.
Complete(t) ==
  /\ pc[t] = "p_complete"
  /\ IF p_broadcast(channel) # None
       THEN PublishAborts(t)
       ELSE
         /\ SetPar(unload(ParState))
         /\ Finish(t, "result", None)
         /\ UNCHANGED <<started, sd_vars, api_vars, engine, probe, mgr_vars, eng_vars, deploy_vars, ws_vars, op, arg, log,
                        gen_vars>>

----------------------------------------------------------------------------
\* The token budget of _generate (generate_preview lines 252-257). Seconds
\* are counted in half seconds, the unit of the code's 0.5 s per word.

\* Word counts of the sample texts of the requests.
MaxWords == 60

Max(a, b) == IF a >= b THEN a ELSE b
Min(a, b) == IF a <= b THEN a ELSE b

\* est_seconds = max(word_count * 0.5, 3.0)
est_seconds(word_count) == Max(word_count, 6)

max_seconds_uncapped(word_count) == est_seconds(word_count) * 2

\* max_seconds = min(est_seconds * 2, 30.0)
max_seconds(word_count) == Min(est_seconds(word_count) * 2, 60)

\* max_tokens = int(max_seconds * 86)
max_tokens(word_count) == (max_seconds(word_count) * 86) \div 2

\* generate_preview is called with a sample text of w words.
SampleText(w) ==
  /\ sample_words' = w
  /\ max_new_tokens' = 0
  /\ UNCHANGED <<started, engine, probe, sd_vars, listing, voices, text_len, mgr_vars, eng_vars, deploy_vars, task_vars,
                 par_vars, gen_vars, ws_vars>>

\* _generate computes the budget it hands to model.generate.
Budget ==
  /\ max_new_tokens = 0
  /\ max_new_tokens' = max_tokens(sample_words)
  /\ UNCHANGED <<started, engine, probe, sd_vars, sample_words, listing, voices, text_len,
                 mgr_vars, eng_vars, deploy_vars,
                 task_vars, par_vars, gen_vars, ws_vars>>

----------------------------------------------------------------------------
\* ConnectionManager (the progress broadcaster of /ws/progress).

Range(q) == {q[i] : i \in 1..Len(q)}

\* disconnect(websocket): removes the connection if it is in the list.
disconnect(conns, c) == SelectSeq(conns, LAMBDA x : x # c)

RemoveNone(conns, gone) == conns

\* broadcast lines 31-32: disconnect(conn) for every conn in `disconnected`.
RemoveAll(conns, gone) == SelectSeq(conns, LAMBDA x : x \notin Range(gone))

\* Calls other than t that are inside broadcast see the list change.
Interfere(t, conns) ==
  interfered' = [u \in Tasks |->
                   IF u # t /\ pc[u] = "b_send" /\ conns # active_connections
                     THEN TRUE ELSE interfered[u]]

\* broadcast's for loop from iterator position idx (the number of items
\* the list iterator has handed out): the next item of the live list is
\* sent to and the call suspends, or the list is exhausted, the failed
\* connections are removed and the call returns. dis is the local list
\* `disconnected`, q the send queues after the step so far.
Advance(t, idx, dis, q) ==
  /\ disconnected' = [disconnected EXCEPT ![t] = dis]
  /\ IF idx < Len(active_connections)
       THEN LET c == active_connections[idx + 1]
            IN /\ b_idx' = [b_idx EXCEPT ![t] = idx + 1]
               /\ cur' = [cur EXCEPT ![t] = c]
               /\ sendq' = [q EXCEPT ![c] = Append(q[c], t)]
               /\ pc' = [pc EXCEPT ![t] = "b_send"]
               /\ UNCHANGED <<active_connections, interfered, fut, res, ret>>
       ELSE /\ active_connections' = RemoveAll(active_connections, dis)
            /\ Interfere(t, RemoveAll(active_connections, dis))
            /\ b_idx' = [b_idx EXCEPT ![t] = idx]
            /\ cur' = [cur EXCEPT ![t] = 0]
            /\ sendq' = q
            /\ Finish(t, "ok", None)

\* websocket_progress: connect(websocket) accepts and appends.
Connect(s) ==
  /\ conn_state[s] = "new"
  /\ conn_state' = [conn_state EXCEPT ![s] = "open"]
  /\ active_connections' = Append(active_connections, s)
  /\ Interfere(0, Append(active_connections, s))
  /\ UNCHANGED <<started, sd_vars, api_vars, engine, probe, mgr_vars, eng_vars, deploy_vars, task_vars, par_vars,
                 gen_vars, hung, received, published, sendq,
                 msg, b_idx, cur, disconnected, snap>>

\* websocket_progress: receive_text raises WebSocketDisconnect and the
\* handler calls disconnect(websocket).
Disconnect(s) ==
  /\ conn_state[s] \in {"open", "closed"}
  /\ conn_state' = [conn_state EXCEPT ![s] = "gone"]
  /\ active_connections' = disconnect(active_connections, s)
  /\ Interfere(0, disconnect(active_connections, s))
  /\ UNCHANGED <<started, sd_vars, api_vars, engine, probe, mgr_vars, eng_vars, deploy_vars, task_vars, par_vars,
                 gen_vars, hung, received, published, sendq,
                 msg, b_idx, cur, disconnected, snap>>

\* The peer of an open connection stops reading: a send_json on it does
\* not complete while the connection stays open.
Stall(s) ==
  /\ conn_state[s] = "open"
  /\ hung = {}
  /\ hung' = {s}
  /\ UNCHANGED <<started, sd_vars, api_vars, engine, probe, mgr_vars, eng_vars, deploy_vars, task_vars, par_vars,
                 gen_vars, active_connections, conn_state, received,
                 published, sendq, ws_locals>>

\* broadcast(message) from its call to its first send_json.
BroadcastCall(t) ==
  /\ pc[t] = "idle"
  /\ published < MaxMsgs
  /\ published' = published + 1
  /\ op' = [op EXCEPT ![t] = "broadcast"]
  /\ msg' = [msg EXCEPT ![t] = published + 1]
  /\ snap' = [snap EXCEPT ![t] = Range(active_connections)]
  /\ Advance(t, 0, <<>>, sendq)
  /\ UNCHANGED <<started, sd_vars, api_vars, engine, probe, mgr_vars, eng_vars, deploy_vars, arg, log, par_vars,
                 gen_vars, conn_state, hung, received>>

\* `await connection.send_json(message)` ends: the message is with the
\* peer, or the send raised and the connection is noted; then the loop
\* goes on. Sends on one connection end in the order they were made.
SendComplete(t) ==
  /\ pc[t] = "b_send"
  /\ LET s == cur[t]
     IN /\ Head(sendq[s]) = t
        /\ s \notin hung \/ conn_state[s] \in {"gone", "closed"}
        /\ \E sent \in BOOLEAN :
             /\ sent => conn_state[s] = "open"
             /\ received' = [received EXCEPT ![s] =
                               IF sent THEN Append(received[s], msg[t])
                               ELSE received[s]]
             /\ Advance(t, b_idx[t],
                        IF sent THEN disconnected[t]
                        ELSE Append(disconnected[t], s),
                        [sendq EXCEPT ![s] = Tail(sendq[s])])
  /\ UNCHANGED <<started, sd_vars, api_vars, engine, probe, mgr_vars, eng_vars, deploy_vars, op, arg, log,
                 par_vars, gen_vars, conn_state, hung, published, msg, snap>>

----------------------------------------------------------------------------
\* lifespan: the shutdown path (main.py, after the yield).

\* The errors the releases of the shutdown path can raise.
Exceptions == {"RuntimeError", "ImportError", "OSError"}

UncaughtAll(e) == e

\* The `except Exception` of lifespan's try blocks: what it lets through.
Uncaught(e) == IF e \in Exceptions THEN None ELSE e

\* The releases of `tried` with a marker after each one that raised.
Attempted(name, raised) ==
  IF raised = None THEN <<name>> ELSE <<name, "raised">>

\* The close loop goes on with the connections `rest` of its list copy,
\* or it is over and shutdown is complete.
CloseNext(rest) ==
  /\ sd_conns' = rest
  /\ sd_pc' = IF Len(rest) = 0 THEN "complete" ELSE "closing"

\* lifespan lines 56-76: the active engine, if any, is unloaded, the GPU
\* cache is cleared, the connection list is copied and close() is called
\* on its first connection. torch_ok false: importing torch or clearing
\* the cache raises.
Shutdown ==
  /\ started
  /\ sd_pc = "serving"
  /\ \E cuda_ok, torch_ok \in BOOLEAN :
       LET active == get_active_engine
           unl == IF active # None
                    THEN unload_model(active, cuda_ok)
                    ELSE [model |-> model, loaded |-> loaded, raised |-> None]
           cache == IF torch_ok THEN None ELSE "RuntimeError"
           tried == (IF active # None
                       THEN Attempted("unload_model", unl.raised) ELSE <<>>)
       IN /\ model' = unl.model
          /\ loaded' = unl.loaded
          /\ IF Uncaught(unl.raised) # None
               THEN /\ sd_pc' = "failed"
                    /\ sd_log' = tried
                    /\ UNCHANGED sd_conns
               ELSE IF Uncaught(cache) # None
                 THEN /\ sd_pc' = "failed"
                      /\ sd_log' = tried \o Attempted("empty_cache", cache)
                      /\ UNCHANGED sd_conns
                 ELSE /\ sd_log' = tried \o Attempted("empty_cache", cache)
                      /\ CloseNext(active_connections)
  /\ UNCHANGED <<started, engine, probe, api_vars, closed, mgr_vars, deploy_vars, task_vars,
                 par_vars, gen_vars, ws_vars>>

\* `await conn.close()` ends for the connection the loop is at: an open
\* connection is closed or the close raises; on a connection that is
\* already closed or gone it raises. The loop goes on.
ShutdownClose ==
  /\ sd_pc = "closing"
  /\ LET s == Head(sd_conns)
     IN \E close_ok \in BOOLEAN :
          LET raised == IF close_ok /\ conn_state[s] = "open"
                          THEN None ELSE "RuntimeError"
          IN /\ closed' = closed \cup {s}
             /\ conn_state' = [conn_state EXCEPT ![s] =
                                 IF raised = None THEN "closed" ELSE @]
             /\ sd_log' = sd_log \o Attempted("close", raised)
             /\ IF Uncaught(raised) # None
                  THEN sd_pc' = "failed" /\ UNCHANGED sd_conns
                  ELSE CloseNext(Tail(sd_conns))
  /\ UNCHANGED <<started, engine, probe, api_vars, mgr_vars, eng_vars, deploy_vars, task_vars,
                 par_vars, gen_vars, active_connections, hung, received,
                 published, sendq, ws_locals>>

----------------------------------------------------------------------------
InitProgram ==
  /\ started = FALSE
  /\ engines = <<>>
  /\ active_engine = None
  /\ active_name = None
  /\ model = [i \in AllInstances |-> None]
  /\ loaded = [i \in AllInstances |-> FALSE]
  /\ engine = [t \in Tasks |-> None]
  /\ probe = [t \in Tasks |-> None]
  /\ installed \in SUBSET Packages
  /\ pc = [t \in Tasks |-> "idle"]
  /\ op = [t \in Tasks |-> None]
  /\ arg = [t \in Tasks |-> None]
  /\ fut = [t \in Tasks |-> None]
  /\ res = [t \in Tasks |-> None]
  /\ ret = [t \in Tasks |-> None]
  /\ log = [t \in Tasks |-> <<>>]
  /\ p_model = None
  /\ p_tokenizer = None
  /\ p_loaded = FALSE
  /\ p_loaded_model_id = None
  /\ req = [t \in Tasks |-> FALSE]
  /\ cancel_event = [t \in Tasks |-> FALSE]
  /\ cancelled = [t \in Tasks |-> FALSE]
  /\ wk = [t \in Tasks |-> None]
  /\ polls = [t \in Tasks |-> 0]
  /\ wrote = [t \in Tasks |-> FALSE]
  /\ active_connections = <<>>
  /\ conn_state = [s \in Sockets |-> "new"]
  /\ hung = {}
  /\ received = [s \in Sockets |-> <<>>]
  /\ published = 0
  /\ sendq = [s \in Sockets |-> <<>>]
  /\ msg = [t \in Tasks |-> 0]
  /\ b_idx = [t \in Tasks |-> 0]
  /\ cur = [t \in Tasks |-> 0]
  /\ disconnected = [t \in Tasks |-> <<>>]
  /\ snap = [t \in Tasks |-> {}]
  /\ interfered = [t \in Tasks |-> FALSE]
  /\ sd_pc = "serving"
  /\ sd_conns = <<>>
  /\ sd_log = <<>>
  /\ closed = {}
  /\ sample_words = 0
  /\ max_new_tokens = 0
  /\ listing = [t \in Tasks |-> <<>>]
  /\ voices = <<>>
  /\ text_len = [t \in Tasks |-> 0]

\* The program with its progress channel working.
Init == InitProgram /\ channel = "up"

EngineProgress ==
  \/ \E t \in Tasks : LoadExec(t)
  \/ \E t \in Tasks : LoadResume(t)

PreviewProgress ==
  \/ \E t \in Tasks : LoadImports(t)
  \/ \E t \in Tasks : ModelLoaded(t)
  \/ \E t \in Tasks : TokenizerLoaded(t)
  \/ \E t \in Tasks : Ready(t)
  \/ \E t \in Tasks : WorkerStart(t)
  \/ \E t \in Tasks : WorkerFinish(t)
  \/ \E t \in Tasks : PollReturn(t)
  \/ \E t \in Tasks : PollTimeout(t)
  \/ \E t \in Tasks : Probe(t)
  \/ \E t \in Tasks : Join(t)
  \/ \E t \in Tasks : Complete(t)

\* Every request of the model.
Next ==
  \/ Startup
  \/ \E t \in Tasks, name \in RequestNames : ActivateCall(t, name)
  \/ \E t \in Tasks, name \in RequestNames : ListVoices(t, name)
  \/ EngineProgress
  \/ \E t \in Tasks, m \in RequestModels : LoadCall(t, m)
  \/ \E t \in Tasks, m \in RequestModels, r \in BOOLEAN : PreviewCall(t, m, r)
  \/ \E t \in Tasks : UnloadCall(t)
  \/ PreviewProgress
  \/ \E t \in Tasks : Return(t)

Spec == Init /\ [][Next]_vars

\* The engine manager's requests alone, in every deployment of the engines.
NextEngines ==
  \/ Startup
  \/ \E t \in Tasks, name \in RequestNames : ActivateCall(t, name)
  \/ \E t \in Tasks, name \in RequestNames : ListVoices(t, name)
  \/ EngineProgress
  \/ \E t \in Tasks : Return(t)

InitEngines == Init /\ ParlerPkg \in installed

SpecEngines == InitEngines /\ [][NextEngines]_vars

\* Registrations, of both kokoro objects, against activations.
NextRegister ==
  \/ Startup
  \/ \E i \in {KokoroEngine, KokoroEngine2} : Register(i)
  \/ \E t \in Tasks, name \in RequestNames : ActivateCall(t, name)
  \/ EngineProgress
  \/ \E t \in Tasks : Return(t)

SpecRegister == InitEngines /\ [][NextRegister]_vars

\* Listings of the engines against activations, in every deployment.
NextListing ==
  \/ Startup
  \/ \E t \in Tasks, name \in EngineNames : ActivateCall(t, name)
  \/ EngineProgress
  \/ \E t \in Tasks : ListEngines(t)
  \/ \E t \in Tasks : Return(t)

SpecListing == InitEngines /\ [][NextListing]_vars

\* Voice cloning on engines loaded or not.
NextClone ==
  \/ Startup
  \/ \E t \in Tasks, name \in EngineNames : ActivateCall(t, name)
  \/ EngineProgress
  \/ \E t \in Tasks, name \in EngineNames : CloneVoice(t, name)
  \/ \E t \in Tasks : Return(t)

SpecClone == InitEngines /\ [][NextClone]_vars

\* Generation requests with texts of every kind of length against
\* activations, every package installed.
NextRequest ==
  \/ Startup
  \/ \E t \in Tasks, name \in EngineNames : ActivateCall(t, name)
  \/ EngineProgress
  \/ \E t \in Tasks, len \in TextLengths : GenerateEndpoint(t, len)
  \/ \E t \in Tasks : GenExec(t)
  \/ \E t \in Tasks : GenResume(t)
  \/ \E t \in Tasks : Return(t)

\* The deployment of the requests: every package is installed.
InitRequest == Init /\ installed = Packages

SpecRequest == InitRequest /\ [][NextRequest]_vars

\* Availability probes against activations, in every deployment.
NextProbe ==
  \/ Startup
  \/ \E t \in Tasks, name \in EngineNames : ActivateCall(t, name)
  \/ EngineProgress
  \/ \E t \in Tasks, pkg \in Packages : IsAvailableCall(t, pkg)
  \/ \E t \in Tasks : Return(t)

SpecProbe == Init /\ [][NextProbe]_vars

\* Synthesis requests against activations of the registered engines.
NextGenerate ==
  \/ Startup
  \/ \E t \in Tasks, name \in EngineNames : ActivateCall(t, name)
  \/ EngineProgress
  \/ \E t \in Tasks, name \in EngineNames : GenerateCall(t, name)
  \/ \E t \in Tasks : GenExec(t)
  \/ \E t \in Tasks : GenResume(t)
  \/ \E t \in Tasks : Return(t)

SpecGenerate == InitEngines /\ [][NextGenerate]_vars

\* The prompt-voice service's requests alone, with and without its package.
NextPreview ==
  \/ Startup
  \/ \E t \in Tasks, m \in RequestModels : LoadCall(t, m)
  \/ \E t \in Tasks, m \in RequestModels, r \in BOOLEAN : PreviewCall(t, m, r)
  \/ \E t \in Tasks : UnloadCall(t)
  \/ PreviewProgress
  \/ \E t \in Tasks : Return(t)

InitPreview == Init /\ EngineNames \subseteq installed

SpecPreview == InitPreview /\ [][NextPreview]_vars

\* The prompt-voice service's requests with the progress channel working
\* or failing.
InitPublish ==
  /\ InitProgram
  /\ channel \in {"up", "down"}
  /\ installed = Packages

SpecPublish == InitPublish /\ [][NextPreview]_vars

\* Installation requests.
NextInstall ==
  \/ Startup
  \/ \E t \in Tasks, name \in InstallNames : InstallCall(t, name)
  \/ \E t \in Tasks : PipUpgradeEnds(t)
  \/ \E t \in Tasks : PipInstallEnds(t)
  \/ \E t \in Tasks : PipRetryEnds(t)
  \/ \E t \in Tasks : Return(t)

SpecInstall == InitRequest /\ [][NextInstall]_vars

\* The preview endpoint's requests, with and without the package.
NextEndpoint ==
  \/ Startup
  \/ \E t \in Tasks, m \in RequestModels : PreviewFromPrompt(t, m)
  \/ PreviewProgress
  \/ \E t \in Tasks : Return(t)

SpecEndpoint == InitPreview /\ [][NextEndpoint]_vars

\* The steps of one call's coroutine and of its worker thread.
CoroutineStep(t) ==
  \/ LoadImports(t)
  \/ ModelLoaded(t)
  \/ TokenizerLoaded(t)
  \/ Ready(t)
  \/ PollReturn(t)
  \/ PollTimeout(t)
  \/ Probe(t)
  \/ Join(t)
  \/ Complete(t)

WorkerStep(t) == WorkerStart(t) \/ WorkerFinish(t)

\* The event loop resumes every coroutine whose await has completed, and
\* the executor runs every worker it was handed.
SpecPreviewFair ==
  /\ SpecPreview
  /\ \A t \in Tasks : WF_vars(CoroutineStep(t)) /\ WF_vars(WorkerStep(t))

\* The two owners of the GPU together, every package installed: activation
\* of the registered engines against prompt-voice requests for the default
\* model that carry a request object.
NextOwners ==
  \/ Startup
  \/ \E t \in Tasks, name \in EngineNames : ActivateCall(t, name)
  \/ EngineProgress
  \/ \E t \in Tasks : LoadCall(t, MiniV11)
  \/ \E t \in Tasks : PreviewCall(t, MiniV11, TRUE)
  \/ \E t \in Tasks : UnloadCall(t)
  \/ PreviewProgress
  \/ \E t \in Tasks : Return(t)

InitOwners == Init /\ installed = Packages

SpecOwners == InitOwners /\ [][NextOwners]_vars

\* Releases called on their own, on owners loaded or not: unload_model of
\* the engines against activations, unload of the prompt-voice service
\* against its loads.
NextUnload ==
  \/ Startup
  \/ \E t \in Tasks, name \in EngineNames : ActivateCall(t, name)
  \/ EngineProgress
  \/ \E t \in Tasks, name \in EngineNames : UnloadModelCall(t, name)
  \/ \E t \in Tasks : LoadCall(t, MiniV11)
  \/ \E t \in Tasks : LoadImports(t)
  \/ \E t \in Tasks : ModelLoaded(t)
  \/ \E t \in Tasks : TokenizerLoaded(t)
  \/ \E t \in Tasks : Ready(t)
  \/ \E t \in Tasks : UnloadCall(t)
  \/ \E t \in Tasks : Return(t)

SpecUnload == InitOwners /\ [][NextUnload]_vars

\* The token budget for sample texts of every length up to MaxWords words.
NextBudget ==
  \/ \E w \in 0..MaxWords : SampleText(w)
  \/ Budget

SpecBudget == Init /\ [][NextBudget]_vars

\* The broadcaster: clients come and go while progress is published.
NextBroadcast ==
  \/ \E s \in Sockets : Connect(s)
  \/ \E s \in Sockets : Disconnect(s)
  \/ \E s \in Sockets : Stall(s)
  \/ \E t \in Tasks : BroadcastCall(t)
  \/ \E t \in Tasks : SendComplete(t)
  \/ \E t \in Tasks : Return(t)

InitBroadcast == Init /\ installed = Packages

SpecBroadcast == InitBroadcast /\ [][NextBroadcast]_vars

\* Shutdown of a server whose engines are switched and whose websocket
\* clients come and go; every task makes one activation request at most.
NextShutdown ==
  \/ Startup
  \/ \E t \in Tasks, name \in EngineNames : ActivateCall(t, name)
  \/ EngineProgress
  \/ \E s \in Sockets : Connect(s)
  \/ \E s \in Sockets : Disconnect(s)
  \/ Shutdown
  \/ ShutdownClose

InitShutdown == Init /\ installed = Packages

SpecShutdown == InitShutdown /\ [][NextShutdown]_vars

\* The event loop resumes every broadcast whose send has ended.
SpecBroadcastFair ==
  /\ SpecBroadcast
  /\ \A t \in Tasks : WF_vars(SendComplete(t))

----------------------------------------------------------------------------
\* Properties of the engine manager and the prompt-voice service.

LastCall(t) == IF Len(log[t]) = 0 THEN None ELSE log[t][Len(log[t])]

\* Step predicates: what task t does in the step from the unprimed to the
\* primed state.
CallsLoadModel(t) ==
  /\ pc[t] = "idle"
  /\ op'[t] = "activate"
  /\ Len(log'[t]) > 0
  /\ log'[t][Len(log'[t])] = "load_model"

LoadModelFails(t) ==
  /\ pc[t] \in {"idle", "load_exec"}
  /\ pc'[t] = "done"
  /\ op'[t] = "activate"
  /\ res'[t] \in {"ImportError", "RuntimeError"}
  /\ Len(log'[t]) > 0
  /\ log'[t][Len(log'[t])] = "load_model"

ActivateReturns(t) ==
  /\ pc[t] \in {"idle", "load_exec"}
  /\ pc'[t] = "done"
  /\ op'[t] = "activate"
  /\ res'[t] = "ok"

LoadingTasks == {t \in Tasks : pc[t] = "load_exec"}

BeingLoaded(i) == \E t \in LoadingTasks : engines[arg[t]] = i

\* C1: no reachable state has an engine active in the EngineManager while
\* the ParlerVoiceService model is loaded.
C1_OneOwnerAtATime ==
  ~((active_engine # None \/ \E i \in Instances : IsLoaded(i)) /\ p_loaded)

\* C2: overlapping activate_engine calls are serialized: at most one
\* load_model is in progress, at most one engine is loaded or being loaded,
\* and once no load is in progress every loaded engine is the one the
\* manager reports active.
C2_TransitionsSerialized ==
  /\ Cardinality(LoadingTasks) <= 1
  /\ Cardinality({i \in Instances : IsLoaded(i) \/ BeingLoaded(i)}) <= 1
  /\ LoadingTasks = {} =>
       \A i \in Instances : IsLoaded(i) => active_engine = i

\* C3: in an activate_engine call that switches engines, the previous
\* engine's unload_model has been called and has completed and the active
\* state has been cleared before load_model of the target is called;
\* load_model is never called while an engine is recorded as active.
C3_UnloadBeforeLoad ==
  [][\A t \in Tasks :
       CallsLoadModel(t) =>
         /\ active_engine' = None
         /\ active_name' = None
         /\ active_engine # None =>
              /\ log'[t] = <<"unload_model", "load_model">>
              /\ ~IsLoadedIn(model', loaded', active_engine)]_vars

C3_Witness ==
  \E t \in Tasks :
    /\ pc[t] = "load_exec"
    /\ log[t] = <<"unload_model", "load_model">>
    /\ active_engine = None

\* C4: when load_model of the target raises, activate_engine raises and
\* get_active_engine() and get_active_name() return None afterwards; the
\* manager never reports the engine whose load just failed.
C4_FailedLoadLeavesIdle ==
  [][\A t \in Tasks :
       LoadModelFails(t) =>
         /\ active_engine' = None
         /\ active_name' = None
         /\ active_name' # arg'[t]]_vars

\* C5: activate_engine(X) while X is active returns the active instance,
\* calls neither unload_model nor load_model and changes nothing; a call
\* that returns X has loaded it at most once, never unloaded it after the
\* load, and leaves X active, so that the same call made next is that no-op.
C5_ActivateIdempotent ==
  [][\A t \in Tasks :
       /\ ( /\ pc[t] = "idle"
            /\ op'[t] = "activate"
            /\ arg'[t] = active_name
            /\ active_engine # None )
          => /\ pc'[t] = "done"
             /\ res'[t] = "ok"
             /\ ret'[t] = active_engine
             /\ log'[t] = <<>>
             /\ UNCHANGED <<engines, active_engine, active_name, model, loaded>>
       /\ ActivateReturns(t)
          => /\ active_name' = arg'[t]
             /\ active_engine' = ret'[t]
             /\ ret'[t] # None
             /\ log'[t] \in {<<>>, <<"load_model">>,
                             <<"unload_model", "load_model">>}]_vars

C5_Witness ==
  \E t \in Tasks :
    /\ pc[t] = "done"
    /\ op[t] = "activate"
    /\ res[t] = "ok"
    /\ log[t] = <<>>
    /\ ret[t] = active_engine
    /\ arg[t] = active_name
    /\ IsLoaded(ret[t])

\* C6: activating a registered engine whose is_available() is false fails
\* with a load error, the engine is never reported active or loaded, and
\* the previously active engine is unloaded and the manager idle afterwards.
C6_UnavailableNeverActive ==
  /\ [](\A i \in Instances :
          ~is_available(i) => active_engine # i /\ ~IsLoaded(i))
  /\ [][\A t \in Tasks :
          ( /\ pc[t] \in {"idle", "load_exec"}
            /\ pc'[t] = "done"
            /\ op'[t] = "activate"
            /\ arg'[t] \in DOMAIN engines
            /\ ~is_available(engines[arg'[t]])
            /\ LastCall(t)' = "load_model" )
          => /\ res'[t] \in {"ImportError", "RuntimeError"}
             /\ active_engine' = None
             /\ \A i \in Instances : ~IsLoadedIn(model', loaded', i)]_vars

\* C7: when load() finds an engine active, the engine is unloaded through
\* the manager, the manager reports no active engine, and only then does
\* the prompt-voice model start loading.
C7_EvictionThroughManager ==
  [][\A t \in Tasks :
       ( /\ pc[t] = "p_bc10"
         /\ pc'[t] # "p_bc10"
         /\ ParlerPkg \in installed
         /\ active_engine # None )
       => /\ active_engine' = None
          /\ active_name' = None
          /\ ~IsLoadedIn(model', loaded', active_engine)
          /\ pc'[t] = "p_load_model"]_vars

\* C8: a lookup of an unregistered name fails with the unknown-engine
\* error (404 from list_engine_voices, ValueError from activate_engine) and
\* yields no engine; a lookup of a registered name yields the instance
\* registered under that name.
C8_LookupByName ==
  \A t \in Tasks :
    /\ pc[t] = "load_exec" => arg[t] \in DOMAIN engines
    /\ pc[t] = "done" /\ op[t] \in {"voices", "activate"} =>
         IF arg[t] \notin EngineNames
           THEN /\ res[t] = (IF op[t] = "voices" THEN "HTTP404" ELSE "ValueError")
                /\ ret[t] = None
           ELSE /\ res[t] # "ValueError"
                /\ ret[t] # None => get_name(ret[t]) = arg[t]
                /\ op[t] = "voices" \/ res[t] = "ok" => ret[t] # None

\* C9: once the probe has reported disconnection at a poll expiry, the call
\* ends by raising GenerationCancelled, and the service is unloaded when
\* the error reaches the caller, whatever the worker does afterwards.
C9_DisconnectCancels ==
  [][\A t \in Tasks :
       ( /\ pc[t] # "done"
         /\ pc'[t] = "done"
         /\ op'[t] = "preview"
         /\ cancelled'[t] )
       => /\ res'[t] = "GenerationCancelled"
          /\ ~p_loaded'
          /\ p_model' = None]_vars

\* C10: a generate_preview call whose cancel flag is set never returns a
\* result and never writes or announces a preview file, also when its
\* worker returned full audio; the flag is not reset during the call.
C10_CancelledNeverReturns ==
  /\ [](\A t \in Tasks :
          cancel_event[t] =>
            /\ res[t] # "result"
            /\ ~wrote[t]
            /\ pc[t] # "p_complete")
  /\ [][\A t \in Tasks :
          cancel_event[t] /\ pc'[t] # "idle" => cancel_event'[t]]_vars

C10_Witness ==
  \E t \in Tasks :
    /\ cancel_event[t]
    /\ wk[t] = "audio"
    /\ pc[t] = "done"
    /\ res[t] = "GenerationCancelled"

C17_ProgressMonotone ==
  \A t \in Tasks :
    pc[t] = "done" /\ op[t] = "preview" /\ res[t] = "result" =>
      /\ \A i, j \in 1..Len(log[t]) :
           i < j => Percent(log[t][i]) <= Percent(log[t][j])
      /\ LastCall(t) = EvComplete

\* The callback values of a generate call, in tenths, in order.
IsCallback(e) == e \in {Cb01, Cb03, Cb08, Cb10}

Tenths(e) ==
  CASE e = Cb01 -> 1
    [] e = Cb03 -> 3
    [] e = Cb08 -> 8
    [] e = Cb10 -> 10

Callbacks(t) == SelectSeq(log[t], IsCallback)

\* What holds of the callback values of every generate call at any time.
CallbacksOrdered(t) ==
  LET cbs == Callbacks(t)
  IN /\ \A k \in 1..Len(cbs) : Tenths(cbs[k]) \in 0..10
     /\ \A k, l \in 1..Len(cbs) : k < l => Tenths(cbs[k]) <= Tenths(cbs[l])
     /\ Len(cbs) > 0 => cbs[1] = Cb01
     /\ Cardinality({k \in 1..Len(cbs) : cbs[k] = Cb10}) <= 1

\* C18 as stated: for each engine the callback values are non-decreasing
\* within [0.0, 1.0] and start at 0.1, and 1.0 is emitted exactly once if
\* and only if the inference step succeeded.
C18_CompleteIffInferred ==
  \A t \in Tasks :
    op[t] = "generate" =>
      /\ CallbacksOrdered(t)
      /\ Cb10 \in Range(log[t]) => Inferred \in Range(log[t])
      /\ pc[t] = "done" /\ Inferred \in Range(log[t]) =>
           Cb10 \in Range(log[t])

\* C18 amended: the callback values are non-decreasing within [0.0, 1.0]
\* and start at 0.1; 1.0 is emitted at most once and never unless the
\* inference step succeeded; fish-speech and f5-tts emit it whenever the
\* inference step succeeded, kokoro only when the audio was also saved,
\* that is exactly when the call returns a result; a call that returns a
\* result has emitted 1.0 last.
C18_CompleteAfterInference ==
  \A t \in Tasks :
    op[t] = "generate" =>
      /\ CallbacksOrdered(t)
      /\ Cb10 \in Range(log[t]) => Inferred \in Range(log[t])
      /\ pc[t] = "done" =>
           /\ res[t] = "result" => LastCall(t) = Cb10
           /\ IF engines[arg[t]] = KokoroEngine
                THEN Cb10 \in Range(log[t]) <=> res[t] = "result"
                ELSE Cb10 \in Range(log[t]) <=> Inferred \in Range(log[t])

C18_Witness ==
  \E t, u \in Tasks :
    /\ pc[t] = "done" /\ op[t] = "generate"
    /\ arg[t] = Kokoro /\ res[t] = "OSError"
    /\ log[t] = <<Cb01, Dispatch, Inferred, Cb08>>
    /\ pc[u] = "done" /\ op[u] = "generate"
    /\ arg[u] = Fish /\ res[u] = "result"
    /\ log[u] = <<Cb01, Cb03, Dispatch, Inferred, Cb10>>

\* The fields that generate's guard of each engine reads.
FieldsLoaded(m, l, i) ==
  CASE get_name(i) = Kokoro -> m[i] # None
    [] i = FishSpeechEngine -> l[i]
    [] i = F5TTSEngine -> l[i] /\ m[i] # None

\* The field that only a completed load_model sets.
LoadedFlag(m, l, i) == IF get_name(i) = Kokoro THEN m[i] # None ELSE l[i]

\* C19: generate on an engine that is not loaded fails with the
\* model-not-loaded error, with no callback and no inference dispatched;
\* an engine passes the guard only after a load_model on it completed
\* successfully and before the next unload_model: the guard's flag is set
\* only by a load_model that returns without error and is cleared by every
\* unload_model.
C19_NotLoadedRejected ==
  [][/\ \A t \in Tasks :
          pc[t] = "idle" /\ op'[t] = "generate" =>
            IF FieldsLoaded(model, loaded, engines[arg'[t]])
              THEN /\ pc'[t] = "g_exec"
                   /\ LastCall(t)' = Dispatch
              ELSE /\ pc'[t] = "done"
                   /\ res'[t] = "RuntimeError"
                   /\ log'[t] = <<>>
     /\ \A i \in Instances :
          /\ FieldsLoaded(model, loaded, i) => LoadedFlag(model, loaded, i)
          /\ ~LoadedFlag(model, loaded, i) /\ LoadedFlag(model', loaded', i) =>
               \E t \in Tasks :
                 /\ pc[t] = "load_exec" /\ pc'[t] = "done"
                 /\ res'[t] = "ok" /\ ret'[t] = i
     /\ \A t \in Tasks :
          ( /\ pc[t] = "idle" /\ op'[t] = "activate"
            /\ Len(log'[t]) > 0 /\ log'[t][1] = "unload_model" )
          => ~LoadedFlag(model', loaded', active_engine)]_vars

C19_Witness ==
  \E t, u \in Tasks :
    /\ pc[t] = "done" /\ op[t] = "generate"
    /\ res[t] = "RuntimeError" /\ log[t] = <<>>
    /\ active_name # arg[t]
    /\ pc[u] = "g_exec" /\ arg[u] = active_name

\* C20: in an activate_engine call that switches away from an active
\* engine, a failure of the outgoing engine's unload_model is suppressed:
\* the outgoing engine is no longer recorded as active and load_model of
\* the target is called.
C20_UnloadFailureSuppressed ==
  [][\A t \in Tasks :
       ( /\ pc[t] = "idle"
         /\ op'[t] = "activate"
         /\ active_engine # None
         /\ arg'[t] # active_name
         /\ arg'[t] \in DOMAIN engines )
       => /\ log'[t] = <<"unload_model", "load_model">>
          /\ active_engine' = None
          /\ active_name' = None]_vars

\* C22: unload_model() on an engine and ParlerVoiceService.unload() complete
\* without error and leave the owner unloaded; on an owner that is not
\* loaded they change nothing, so that a second unload changes nothing
\* more.
C22_UnloadIdempotent ==
  [][\A t \in Tasks :
       /\ pc[t] = "idle" /\ op'[t] = "unload_model" =>
            LET i == engines[arg'[t]]
            IN /\ res'[t] = "ok"
               /\ model'[i] = None /\ ~loaded'[i]
               /\ ~FieldsLoaded(model', loaded', i)
               /\ model[i] = None /\ ~loaded[i] => UNCHANGED <<model, loaded>>
       /\ pc[t] = "idle" /\ op'[t] = "unload" =>
            /\ res'[t] = "ok"
            /\ ~p_loaded'
            /\ ~p_loaded => UNCHANGED par_vars
            /\ unload(ParState)' = ParState']_vars

\* C24: preview_from_prompt answers 499 if and only if its
\* generate_preview call raised GenerationCancelled, 500 for every other
\* exception of that call, 200 when it returned, and 400 exactly when the
\* service is not available, then without having called generate_preview
\* or loaded anything.
C24_CancelDistinctFromFailure ==
  /\ [](\A t \in Tasks :
          pc[t] = "done" /\ op[t] = PreviewFromPromptOp =>
            /\ res[t] \in {"HTTP200", "HTTP400", "HTTP499", "HTTP500"}
            /\ res[t] = "HTTP499" <=> ret[t] = "GenerationCancelled"
            /\ res[t] = "HTTP200" <=> ret[t] = "result"
            /\ res[t] = "HTTP500" <=>
                 ret[t] \notin {None, "result", "GenerationCancelled"}
            /\ res[t] = "HTTP400" <=> ParlerPkg \notin installed
            /\ res[t] = "HTTP400" <=> ret[t] = None
            /\ res[t] = "HTTP400" => log[t] = <<>> /\ wk[t] = None)
  /\ [][\A t \in Tasks :
          op'[t] = PreviewFromPromptOp /\ res'[t] = "HTTP400" /\ res[t] = None =>
            UNCHANGED <<par_vars, mgr_vars, eng_vars>>]_vars

C24_Witness ==
  \E t, u \in Tasks :
    /\ pc[t] = "done" /\ op[t] = PreviewFromPromptOp
    /\ res[t] = "HTTP499" /\ wk[t] = "audio"
    /\ pc[u] = "done" /\ op[u] = PreviewFromPromptOp
    /\ res[u] = "HTTP500" /\ ret[u] = "RuntimeError"

\* C25: the list get_available_engines() returns has exactly one entry per
\* registered name, in registration order; an entry is reported loaded if
\* and only if its name is get_active_name(), so at most one entry is; the
\* call changes neither the registry nor the active state.
C25_ListingReflectsActive ==
  [][\A t \in Tasks :
       pc[t] = "idle" /\ op'[t] = "engines" =>
         /\ UNCHANGED <<engines, active_engine, active_name, model, loaded>>
         /\ res'[t] = "ok" =>
              LET entries == listing'[t]
              IN /\ Len(entries) = Cardinality(DOMAIN engines)
                 /\ [k \in 1..Len(entries) |-> entries[k].name] =
                      <<"kokoro", "fish-speech", "f5-tts">>
                 /\ \A k \in 1..Len(entries) :
                      /\ engines[entries[k].name] \in Instances
                      /\ entries[k].loaded <=>
                           entries[k].name = get_active_name
                 /\ Cardinality({k \in 1..Len(entries) :
                                   entries[k].loaded}) <= 1]_vars

C25_Witness ==
  \E t \in Tasks :
    /\ pc[t] = "done" /\ op[t] = "engines" /\ res[t] = "ok"
    /\ listing[t][2].loaded
    /\ ~listing[t][1].loaded
    /\ IsLoaded(KokoroEngine) /\ IsLoaded(FishSpeechEngine)

\* C26: clone_voice on an engine whose supports_voice_cloning() is false
\* fails with the unsupported-operation error and creates no profile; on
\* an engine whose supports_voice_cloning() is true it does not fail with
\* that error, and the profile it returns and saves has the engine's
\* get_name() as its engine field; loaded or not, the engine's and the
\* manager's state are left as they were.
C26_CloneVoiceBySupport ==
  [][\A t \in Tasks :
       pc[t] = "idle" /\ op'[t] = "clone_voice" =>
         LET i == engines[arg'[t]]
         IN /\ UNCHANGED <<model, loaded, engines, active_engine, active_name>>
            /\ IF ~supports_voice_cloning(i)
                 THEN /\ res'[t] = "NotImplementedError"
                      /\ ret'[t] = None
                      /\ voices' = voices
                 ELSE /\ res'[t] # "NotImplementedError"
                      /\ res'[t] = "ok" =>
                           /\ ret'[t] = get_name(i)
                           /\ voices' = Append(voices, get_name(i))
                      /\ res'[t] # "ok" => voices' = voices]_vars

C26_Witness ==
  \E t, u \in Tasks :
    /\ pc[t] = "done" /\ op[t] = "clone_voice" /\ arg[t] = F5
    /\ res[t] = "ok" /\ ret[t] = F5 /\ voices = <<Fish, F5>>
    /\ ~IsLoaded(F5TTSEngine)
    /\ pc[u] = "done" /\ op[u] = "clone_voice" /\ arg[u] = Kokoro
    /\ res[u] = "NotImplementedError"
    /\ IsLoaded(KokoroEngine)

\* C27: on each poll-timeout expiry of the wait loop the call both checks
\* the liveness predicate its caller supplied and emits a heartbeat event
\* (stage generating): an expiry of a call with a request object goes to
\* the probe, and the expiry is never left without a heartbeat.
C27_HeartbeatAndProbeEachExpiry ==
  [][\A t \in Tasks :
       /\ pc[t] = "p_wait" /\ polls'[t] = polls[t] + 1 =>
            IF req[t]
              THEN pc'[t] = "p_probe"
              ELSE log'[t] = Append(log[t], EvGenerating)
       /\ pc[t] = "p_probe" /\ pc'[t] # "p_probe" =>
            log'[t] = Append(log[t], EvGenerating)]_vars

\* The calls of generate a task has made for its request.
GenerateCalls(t) == Cardinality({k \in 1..Len(log[t]) : log[t][k] = "generate"})

\* C28: a generation request whose text has length 0 is rejected by the
\* validation before any engine is touched; a request whose text has 1 to
\* 100000 characters has generate of the active engine called exactly
\* once.
C28_ValidatedBeforeEngine ==
  /\ [][\A t \in Tasks :
          pc[t] = "idle" /\ op'[t] = "generate_request" =>
            /\ text_len'[t] = 0 =>
                 /\ res'[t] = "ValidationError"
                 /\ log'[t] = <<>>
                 /\ UNCHANGED <<mgr_vars, eng_vars>>
            /\ ( /\ text_len'[t] >= 1
                 /\ text_len'[t] <= 100000
                 /\ active_engine # None )
               => /\ log'[t][1] = "generate"
                  /\ arg'[t] = active_name]_vars
  /\ [](\A t \in Tasks :
          op[t] = "generate_request" =>
            /\ GenerateCalls(t) <= 1
            /\ (GenerateCalls(t) = 1) <=>
                 (text_len[t] \in 1..100000 /\ res[t] # "ModelNotLoadedError"))

C28_Witness ==
  \E t, u \in Tasks :
    /\ pc[t] = "done" /\ op[t] = "generate_request"
    /\ text_len[t] = 0 /\ res[t] = "ValidationError" /\ log[t] = <<>>
    /\ pc[u] = "done" /\ op[u] = "generate_request"
    /\ text_len[u] = 100000 /\ res[u] = "result" /\ GenerateCalls(u) = 1

\* C29: is_available() of every engine and of the prompt-voice service
\* never raises: it returns false however the import of the package fails
\* and true only when the import succeeds, and it changes no engine or
\* manager state.
C29_ProbeNeverRaises ==
  [][\A t \in Tasks :
       pc[t] = "idle" /\ op'[t] = "is_available" =>
         /\ res'[t] = "ok"
         /\ ret'[t] \in {"True", "False"}
         /\ ret'[t] = "True" => arg'[t] \in installed
         /\ UNCHANGED <<mgr_vars, eng_vars, par_vars, deploy_vars>>]_vars

\* C30: activate_engine(name) with an unregistered name fails without side
\* effects: it calls unload_model and load_model on no engine and leaves the
\* active engine and the active name as they were, also when another engine
\* was active.
C30_UnregisteredNoSideEffects ==
  [][\A t \in Tasks :
       pc[t] = "idle" /\ op'[t] = "activate"
         /\ arg'[t] \notin DOMAIN engines =>
           /\ pc'[t] = "done" /\ res'[t] # "ok"
           /\ log'[t] = <<>>
           /\ UNCHANGED <<active_engine, active_name, eng_vars>>]_vars

\* C31: whenever the manager reports an active engine, that engine is
\* loaded (a generate call on it passes the not-loaded guard), after any
\* sequence of activations, failed or not, and of prompt-voice loads.
C31_ActiveIsLoaded ==
  get_active_engine # None => IsLoaded(get_active_engine)

\* C32: in every state of the manager the active engine is None exactly
\* when the active name is None, and when they are set the active name is
\* registered and the active engine is the instance registered under it,
\* for every sequence of register and activate_engine calls, re-registering
\* a name included.
C32_ActivePairRegistered ==
  /\ (active_engine = None) <=> (active_name = None)
  /\ active_name # None =>
       /\ active_name \in DOMAIN engines
       /\ engines[active_name] = active_engine

\* An activation that looked its engine up before the name was registered
\* again.
StaleLookup(t) ==
  /\ pc[t] = "load_exec"
  /\ arg[t] \in DOMAIN engines => engines[arg[t]] # engine[t]

ActivePaired == active_name # None => engines[active_name] = active_engine

\* C32 (amended): the active engine is None exactly when the active name
\* is None; when set, the active name is registered and is the name of the
\* active engine; and the active engine is the instance registered under
\* that name after every step, except a register call that replaces the
\* entry of the active name and the completion of an activation whose
\* name was registered again after its lookup.
C32_ActivePairOfItsName ==
  /\ []((active_engine = None) <=> (active_name = None))
  /\ [](active_name # None =>
          /\ active_name \in DOMAIN engines
          /\ get_name(active_engine) = active_name)
  /\ [][(ActivePaired /\ (\A t \in Tasks : ~StaleLookup(t))
            /\ (active_name # None =>
                  engines'[active_name] = engines[active_name]))
         => ActivePaired']_vars

\* The name was registered again and then activated.
C32_Witness ==
  /\ active_name = Kokoro
  /\ active_engine = KokoroEngine2
  /\ engines[Kokoro] = KokoroEngine2

\* A generate_preview call of task t ends in this step.
PreviewEnds(t) == op'[t] = "preview" /\ pc[t] # "done" /\ pc'[t] = "done"

C34_PreviewCallsExclusive ==
  /\ [][p_model # None /\ p_model' = None =>
          \A t \in Tasks : wk[t] # "generating"]_vars
  /\ [](Cardinality({t \in Tasks : pc[t] = "p_load_model"}) <= 1)

\* The tasks whose call is inside ParlerVoiceService.load.
InServiceLoad == {t \in Tasks :
                    pc[t] \in {"p_bc10", "p_load_model", "p_load_tok",
                               "p_ready"}}

\* C35: whenever no load call is in progress, _loaded False implies that no
\* model is resident (_model and _tokenizer are None) and _loaded_model_id
\* is None; a load that fails between the weights and the tokenizer leaves
\* nothing resident.
C35_NotLoadedNothingResident ==
  InServiceLoad = {} /\ ~p_loaded =>
    p_model = None /\ p_tokenizer = None /\ p_loaded_model_id = None

\* C36: a generate_preview call dispatches its worker once (when it has
\* got past load) and never again; a poll timeout leaves the worker as it
\* is; the worker only moves forward, from queued to running to its
\* outcome; and what the call ends with is the outcome of that one run: a
\* result or a write failure only from audio, the worker's error only when
\* it raised, a cancellation only from a run that returned.
C36_WorkerDispatchedOnce ==
  [][\A t \in Tasks :
       /\ wk'[t] = "queued" /\ wk[t] # "queued" =>
            wk[t] = None /\ pc[t] = "p_ready" /\ pc'[t] = "p_wait"
       /\ pc[t] = "p_ready" /\ pc'[t] = "p_wait" => wk'[t] = "queued"
       /\ polls'[t] = polls[t] + 1 => wk'[t] = wk[t]
       /\ wk'[t] # wk[t] =>
            \/ wk[t] = None /\ wk'[t] = "queued"
            \/ wk[t] = "queued" /\ wk'[t] \in {"generating", "raised"}
            \/ wk[t] = "generating" /\ wk'[t] \in {"audio", "none", "raised"}
            \/ pc[t] = "done" /\ pc'[t] = "idle" /\ wk'[t] = None
       /\ pc[t] \in {"p_wait", "p_probe", "p_join", "p_complete"}
            /\ pc'[t] = "done" =>
              CASE res'[t] = "result" -> wk[t] = "audio" /\ wrote[t]
                [] res'[t] = "OSError" -> wk[t] = "audio" /\ ~wrote'[t]
                [] res'[t] = "RuntimeError" -> wk[t] = "raised"
                [] res'[t] = "GenerationCancelled" ->
                     wk[t] \in {"audio", "none"}
                [] OTHER -> FALSE]_vars

\* A call saw a poll timeout while its worker ran and then returned the
\* audio of that run.
C36_Witness ==
  \E t \in Tasks :
    /\ op[t] = "preview" /\ pc[t] = "done" /\ res[t] = "result"
    /\ polls[t] >= 1
    /\ wk[t] = "audio"

\* C37: in generate_preview the liveness probe is consulted only at a poll
\* timeout and only when a request object was supplied; a probe that
\* raises is suppressed: the cancellation flag stays unset and the call goes
\* on with the heartbeat as if the client were connected; without a request
\* object the call is never cancelled.
C37_ProbeOnlyOnTimeoutAndSuppressed ==
  /\ [][\A t \in Tasks :
          /\ pc[t] # "p_probe" /\ pc'[t] = "p_probe" =>
                pc[t] = "p_wait" /\ polls'[t] = polls[t] + 1 /\ req[t]
          /\ probe'[t] # probe[t] /\ probe'[t] # None =>
                pc[t] = "p_probe" /\ req[t]
          /\ pc[t] = "p_probe" /\ pc'[t] # "p_probe"
                /\ probe'[t] \in {"raises", "connected"} =>
                  /\ cancel_event'[t] = cancel_event[t]
                  /\ cancelled'[t] = cancelled[t]
                  /\ wk'[t] = wk[t]
                  /\ pc'[t] = "p_wait"
                  /\ log'[t] = Append(log[t], EvGenerating)]_vars
  /\ [](\A t \in Tasks :
          ~req[t] =>
            /\ ~cancel_event[t] /\ ~cancelled[t]
            /\ probe[t] = None
            /\ res[t] # "GenerationCancelled")

\* The probe raised, the call went on and returned its result.
C37_Witness ==
  \E t \in Tasks :
    /\ probe[t] = "raises"
    /\ ~cancel_event[t]
    /\ pc[t] = "done" /\ res[t] = "result"

\* C38: a failure of the progress channel never affects the publisher: an
\* exception raised while publishing a progress event of load or
\* generate_preview is suppressed; no call ends with it, and a call that
\* ends well has gone through all its stages, as with a working channel.
C38_PublishFailureSuppressed ==
  \A t \in Tasks :
    /\ res[t] # "ConnectionError"
    /\ pc[t] = "done" /\ res[t] = "result" =>
         /\ log[t] # <<>> /\ log[t][Len(log[t])] = EvComplete
         /\ wk[t] = "audio" /\ wrote[t]
    /\ pc[t] = "done" /\ op[t] = "load" /\ res[t] = "ok" =>
         log[t] = <<>> \/ log[t][Len(log[t])] = EvModelReady

\* With the channel failing at every publish, a call has loaded the model,
\* generated and returned its result.
C38_Witness ==
  /\ channel = "down"
  /\ \E t \in Tasks :
       /\ op[t] = "preview" /\ pc[t] = "done" /\ res[t] = "result"
       /\ log[t] = <<EvLoading10, EvLoading30, EvLoading80, EvModelReady,
                     EvGenerating, EvComplete>>

\* Positions of the entries of q that are in S, and the last of them.
Positions(q, S) == {k \in 1..Len(q) : q[k] \in S}
LastAt(q, S) ==
  IF Positions(q, S) = {} THEN 0
  ELSE CHOOSE k \in Positions(q, S) : \A j \in Positions(q, S) : j <= k

PipCommands == {PipUpgrade, PipInstall, PipRetry}
PipExits == {"exit 0", "exit 1", "exit 1: permission", "raised"}
TerminalStages == {StComplete, StError}

\* The pip command whose run gave the exit at position k of q.
CommandOf(q, k) == q[LastAt(SubSeq(q, 1, k), PipCommands)]

\* C39: install_engine runs the package install at most twice, the second
\* time with --no-deps and only after a first attempt that exited non-zero
\* with a permission message; a pip upgrade that exits non-zero is followed
\* by the install; a call broadcasts no terminal event before it ends and
\* exactly one when it ends, 'complete' (with the answer) exactly when the
\* last install attempt exited 0 and 'error' with HTTP 500 otherwise; an
\* unknown name gives 404 with no broadcast and no pip run.
C39_InstallRunsAndTerminalEvent ==
  \A t \in Tasks :
    op[t] = "install" =>
      LET q == log[t]
          n == Len(q)
      IN
      /\ Cardinality(Positions(q, {PipInstall})) <= 1
      /\ Cardinality(Positions(q, {PipRetry})) <= 1
      /\ \A k \in Positions(q, {PipRetry}) :
            /\ k >= 3
            /\ q[k - 2] = "exit 1: permission"
            /\ CommandOf(q, k - 2) = PipInstall
      /\ \A k \in Positions(q, {"exit 1", "exit 1: permission"}) :
            CommandOf(q, k) = PipUpgrade =>
              n >= k + 2 /\ q[k + 2] = PipInstall
      /\ pc[t] # "done" => Positions(q, TerminalStages) = {}
      /\ pc[t] = "done" =>
            IF arg[t] \notin INSTALL_COMMANDS
              THEN res[t] = "HTTP404" /\ q = <<>>
              ELSE /\ Positions(q, TerminalStages) = {n}
                   /\ q[n] = StComplete <=>
                         /\ q[LastAt(q, PipExits)] = "exit 0"
                         /\ CommandOf(q, n) \in {PipInstall, PipRetry}
                   /\ res[t] = (IF q[n] = StComplete THEN "HTTP200"
                                ELSE "HTTP500")

\* The pip upgrade failed, the install hit a permission error, and the
\* retry succeeded.
C39_Witness ==
  \E t \in Tasks :
    /\ op[t] = "install" /\ pc[t] = "done" /\ res[t] = "HTTP200"
    /\ Positions(log[t], {PipRetry}) # {}
    /\ \E k \in Positions(log[t], {"exit 1"}) :
         CommandOf(log[t], k) = PipUpgrade

\* C23: with w the word count of the sample text, the budget passed to the
\* model is 86 * min(max(w, 6), 30): it lies in [516, 2580], is
\* non-decreasing in w and is 2580 for every w >= 30.
C23_TokenBudgetClamped ==
  max_new_tokens # 0 =>
    /\ max_new_tokens = 86 * Min(Max(sample_words, 6), 30)
    /\ max_new_tokens >= 516 /\ max_new_tokens <= 2580
    /\ sample_words >= 30 => max_new_tokens = 2580
    /\ \A v \in 0..sample_words : max_tokens(v) <= max_new_tokens

C23_Witness ==
  /\ sample_words > 30
  /\ max_new_tokens = 2580

----------------------------------------------------------------------------
\* Properties of the shutdown path.

\* C21: on lifespan exit unload_model of the active engine is attempted if
\* and only if an engine is active; no failure of unload_model, of the GPU
\* cache clearing or of a close() ends shutdown: after each of them the
\* next release is attempted, close() is called on every connection of
\* the list copy in turn; a close() that is awaited always ends, and the
\* loop is left, with shutdown complete, after the last connection.
C21_ShutdownCompletes ==
  /\ [](sd_pc \in {"serving", "closing", "complete"})
  /\ [](sd_pc = "complete" => sd_conns = <<>>)
  /\ [][/\ sd_pc = "serving" /\ sd_pc' # "serving" =>
            /\ (active_engine # None) <=> (sd_log'[1] = "unload_model")
            /\ sd_log'[Len(sd_log')] \in {"empty_cache", "raised"}
            /\ "empty_cache" \in Range(sd_log')
            /\ sd_conns' = active_connections
            /\ sd_pc' = IF Len(active_connections) = 0
                          THEN "complete" ELSE "closing"
       /\ sd_pc = "closing" /\ sd_log' # sd_log =>
            /\ closed' = closed \cup {Head(sd_conns)}
            /\ sd_conns' = Tail(sd_conns)
            /\ sd_pc' = IF Len(sd_conns) = 1 THEN "complete" ELSE "closing"]_vars
  /\ [](sd_pc = "closing" => Len(sd_conns) > 0 /\ ENABLED ShutdownClose)

C21_Witness ==
  /\ sd_pc = "complete"
  /\ sd_log = <<"unload_model", "raised", "empty_cache", "raised",
                "close", "raised", "close", "close">>
  /\ Cardinality(closed) = 3

----------------------------------------------------------------------------
\* Properties of the broadcaster.

\* The step in which the broadcast call of task t returns.
BroadcastEnds(t) ==
  /\ pc[t] \in {"idle", "b_send"}
  /\ pc'[t] = "done"
  /\ op'[t] = "broadcast"

\* C12: a broadcast to several subscribers of which some raise does not
\* raise itself; when it returns exactly the connections whose send raised
\* have been removed from active_connections, in place; and, the list not
\* having been changed by anyone else during the call, every subscriber
\* whose send did not raise has received the message.
C12_RaisingSubscribersIsolated ==
  [][\A t \in Tasks :
       BroadcastEnds(t) =>
         /\ res'[t] = "ok"
         /\ active_connections' =
              SelectSeq(active_connections,
                        LAMBDA c : c \notin Range(disconnected'[t]))
         /\ ~interfered[t] =>
              /\ Range(active_connections') =
                   snap'[t] \ Range(disconnected'[t])
              /\ \A s \in snap'[t] \ Range(disconnected'[t]) :
                   msg'[t] \in Range(received'[s])]_vars

C12_Witness ==
  \E t \in Tasks :
    /\ pc[t] = "done"
    /\ op[t] = "broadcast"
    /\ ~interfered[t]
    /\ Cardinality(snap[t]) = 3
    /\ Len(disconnected[t]) = 1
    /\ Len(active_connections) = 2
    /\ \A s \in Range(active_connections) : msg[t] \in Range(received[s])

\* C13: when a broadcast returns, every observer that was subscribed when
\* the call began and is still subscribed has received the message.
C13_SnapshotDelivery ==
  [][\A t \in Tasks :
       BroadcastEnds(t) =>
         \A s \in snap'[t] \cap Range(active_connections') :
           msg'[t] \in Range(received'[s])]_vars

\* C14: every subscriber receives messages in publish order: no subscriber
\* receives a later broadcast's message before an earlier one's.
C14_FifoPerSubscriber ==
  \A s \in Sockets :
    \A i, j \in 1..Len(received[s]) :
      i < j => received[s][i] < received[s][j]

\* C15: a subscriber whose send never completes blocks nobody: every
\* broadcast call returns to its publisher.
C15_HungSubscriberDoesNotBlock ==
  \A t \in Tasks : (op[t] = "broadcast") ~> (pc[t] = "done")

\* C16: a message is delivered only to observers that were subscribed when
\* its broadcast call began.
C16_NoRetroactiveDelivery ==
  [][\A t \in Tasks : \A s \in Sockets :
       ( /\ pc[t] = "b_send"
         /\ cur[t] = s
         /\ received'[s] = Append(received[s], msg[t]) )
       => s \in snap[t]]_vars

====
